---- MODULE Spec2Model ----
(***************************************************************************)
(* A model of the venegame locomotion / asset / retargeting core:          *)
(*   - ModelLoader (src/src/utils/modelLoader.ts): the static registry,    *)
(*     the loaded-model cache, the asynchronous loadModelById and          *)
(*     processMeshes;                                                      *)
(*   - ModelLoader.remapAnimationTracks: the animation retargeting pass;   *)
(*   - the frame of Game.animate: HumanCharacter / Character update, the   *)
(*     animation mixer and clips, then Game.handleCameraMovement;          *)
(*   - InputControls: the keys, the mouse and the pointer lock;            *)
(*   - the heading and the horizontal velocity of the character            *)
(*     (lerpAngle, updateCharacterRotation, handleMovement).               *)
(* Each component has its own specification (Spec, SpecMeshes, SpecAssets, *)
(* SpecRetarget, SpecMovement, SpecAnimation, SpecLoading, SpecFrameTime,  *)
(* SpecSmoothing, SpecFacing, SpecVelocity, SpecCamera, SpecZoom,          *)
(* SpecPitch, SpecMouse, SpecKeyboard) over the shared variable tuple; a   *)
(* specification leaves the variables of the other components untouched.   *)
(* SpecLoadingFair is SpecLoading with the frame loop going on for ever.   *)
(***************************************************************************)
EXTENDS Integers, Sequences, FiniteSets, TLC

VARIABLES
  modelRegistry,   \* ModelLoader.modelRegistry : id -> ModelAsset | Absent
  loadedModels,    \* ModelLoader.loadedModels  : id -> LoadedModel | Absent
  calls,           \* the loadModelById invocations made so far, in call order
  decodes,         \* number of gltfLoader.load decodes started so far
  completedSince,  \* id -> a load of id resolved and no setExcludedMeshes(id) since
  scene,           \* the decoded scene that loadModel hands to processMeshes
  fbxLoads,        \* the asset ids whose url was handed to fbxLoader.load
  clip,            \* the AnimationClip handed to remapAnimationTracks
  remapped,        \* remapAnimationTracks(clip), or NotRun
  remappedAgain,   \* remapAnimationTracks(remapped), or NotRun
  keys,            \* InputControls.keys : action -> held
  keysDown,        \* the key codes of the keys that are down on the keyboard
  character,       \* the fields of the game's character object
  frame,           \* where the frame loop is, and the frame's deltaTime
  mouse,           \* InputControls.mouse
  camera,          \* the camera fields of Game
  facing           \* the character's heading: mesh.rotation.y, the stored
                   \* camera yaw and movementDirection

loaderVars ==
  <<modelRegistry, loadedModels, calls, decodes, completedSince, scene,
    fbxLoads>>

retargetVars == <<clip, remapped, remappedAgain>>

movementVars == <<keys, character, frame>>

cameraVars == <<mouse, camera>>

facingVars == <<facing>>

keyboardVars == <<keysDown>>

vars ==
  <<loaderVars, retargetVars, movementVars, cameraVars, facingVars,
    keyboardVars>>

\* What an operation of one component leaves alone: the other components
notLoaderVars ==
  <<retargetVars, movementVars, cameraVars, facingVars, keyboardVars>>

notRetargetVars ==
  <<loaderVars, movementVars, cameraVars, facingVars, keyboardVars>>

notMovementVars ==
  <<loaderVars, retargetVars, cameraVars, facingVars, keyboardVars>>

notCameraVars ==
  <<loaderVars, retargetVars, movementVars, facingVars, keyboardVars>>

\* The heading model reads the keys and leaves them alone
notFacingVars ==
  <<loaderVars, retargetVars, character, frame, cameraVars, keyboardVars>>

-----------------------------------------------------------------------------
(* Bounds and value universes of the loader model *)

MaxCalls == 2

ModelIds == {"x", "y"}

Url == "/models/elDA.glb"

\* excludeMeshes is optional in ModelAsset: Undefined until setExcludedMeshes
Undefined == <<"#undefined">>

ExcludeLists == {<<"Hat">>}

Absent == [absent |-> TRUE]

Null == [null |-> TRUE]

Pending == [pending |-> TRUE]

DecodeFailed == [error |-> "DecodeFailed"]

NoUrl == ""

\* The rejection of an async function whose body threw
TypeError == [error |-> "TypeError"]

-----------------------------------------------------------------------------
(* ModelLoader.processMeshes.  A name is the sequence of its letters; a     *)
(* scene is the list of its nodes in the order traverse visits them.        *)

\* The node names and the excluded names that are followed
PartNames == {<<"a">>, <<"A">>, <<"b">>, <<"a", "b">>, <<"A", "b">>}

ExcludedNames == PartNames \cup {<<>>}

\* A node as GLTFLoader builds it: visible, with no shadow flag set
Object3D(kind, name) ==
  [kind |-> kind, name |-> name, visible |-> TRUE,
   castShadow |-> FALSE, receiveShadow |-> FALSE]

\* String.prototype.toLowerCase
toLowerCase(name) ==
  [i \in DOMAIN name |-> IF name[i] = "A" THEN "a" ELSE name[i]]

\* String.prototype.includes
includes(name, part) ==
  \E i \in 0..(Len(name) - Len(part)) :
    SubSeq(name, i + 1, i + Len(part)) = part

\* processMeshes on one node, with the exclusion list when one was given
ProcessMesh(child, excluding, excludeMeshes) ==
  IF child.kind # "Mesh" THEN child
  ELSE IF /\ excluding
          /\ \E name \in excludeMeshes :
               \/ includes(child.name, name)
               \/ toLowerCase(child.name) = toLowerCase(name)
    THEN [child EXCEPT !.visible = FALSE]
  ELSE [child EXCEPT !.castShadow = TRUE, !.receiveShadow = TRUE]

\* processMeshes giving every mesh its shadows, the excluded ones too
ProcessMeshesShadowingAll(nodes, excluding, excludeMeshes) ==
  [i \in DOMAIN nodes |->
     IF nodes[i].kind = "Mesh"
       THEN [ProcessMesh(nodes[i], excluding, excludeMeshes)
               EXCEPT !.castShadow = TRUE, !.receiveShadow = TRUE]
       ELSE nodes[i]]

\* model.traverse((child) => ...)
ProcessMeshes(nodes, excluding, excludeMeshes) ==
  [i \in DOMAIN nodes |-> ProcessMesh(nodes[i], excluding, excludeMeshes)]

\* No scene has been decoded
NoScene ==
  [decoded |-> <<>>, nodes |-> <<>>, excluding |-> FALSE,
   excludeMeshes |-> {}, processed |-> FALSE]

-----------------------------------------------------------------------------
(* ModelLoader: registry operations *)

ModelAsset(url, enabled, excludeMeshes) ==
  [url |-> url, enabled |-> enabled, excludeMeshes |-> excludeMeshes]

\* The LoadedModel resolved by loadModel: the decoded scene of decode number
\* `decode`, processed by processMeshes with the exclusion list handed to it.
LoadedModel(decode, excludeMeshes) ==
  [decode |-> decode, excludeMeshes |-> excludeMeshes]

\* registerModel: this.modelRegistry.set(asset.id, asset)
RegistryAfterRegister(registry, id, asset) ==
  [registry EXCEPT ![id] = asset]

\* setModelEnabled: mutate the asset when it is registered, else nothing
RegistryAfterSetEnabled(registry, id, enabled) ==
  IF registry[id] # Absent
    THEN [registry EXCEPT ![id].enabled = enabled]
    ELSE registry

\* setExcludedMeshes, registry part
RegistryAfterSetExcluded(registry, id, meshNames) ==
  IF registry[id] # Absent
    THEN [registry EXCEPT ![id].excludeMeshes = meshNames]
    ELSE registry

\* Mutant of CacheAfterSetExcluded: the cached entry is not deleted
CacheAfterSetExcludedKeepsEntry(registry, cache, id) == cache

\* setExcludedMeshes, cache part: delete the entry of a registered id
CacheAfterSetExcluded(registry, cache, id) ==
  IF registry[id] # Absent /\ cache[id] # Absent
    THEN [cache EXCEPT ![id] = Absent]
    ELSE cache

registerModel(id, enabled) ==
  /\ modelRegistry' = RegistryAfterRegister(modelRegistry, id,
                                            ModelAsset(Url, enabled, Undefined))
  /\ UNCHANGED <<loadedModels, calls, decodes, completedSince, scene,
                 fbxLoads>>
  /\ UNCHANGED notLoaderVars

setModelEnabled(id, enabled) ==
  /\ modelRegistry' = RegistryAfterSetEnabled(modelRegistry, id, enabled)
  /\ UNCHANGED <<loadedModels, calls, decodes, completedSince, scene,
                 fbxLoads>>
  /\ UNCHANGED notLoaderVars

setExcludedMeshes(id, meshNames) ==
  /\ modelRegistry' = RegistryAfterSetExcluded(modelRegistry, id, meshNames)
  /\ loadedModels' = CacheAfterSetExcluded(modelRegistry, loadedModels, id)
  /\ completedSince' = [completedSince EXCEPT ![id] = FALSE]
  /\ UNCHANGED <<calls, decodes, scene, fbxLoads>>
  /\ UNCHANGED notLoaderVars

-----------------------------------------------------------------------------
(* ModelLoader.loadModelById *)

\* The synchronous part of loadModelById, up to its await: which path the call
\* takes, what it returns at once, what it logs, and the arguments of the
\* loadModel call it starts.
\*   path "notFound" / "disabled": console.warn and return null
\*   path "cached": return the cache entry
\*   path "decode": call loadModel(asset.url, onProgress, asset.excludeMeshes)
NoDecode(path, ret, warn) ==
  [path |-> path, ret |-> ret, warn |-> warn,
   url |-> NoUrl, excludeMeshes |-> Undefined]

\* Mutant of LoadModelByIdStart: the cache is consulted before the enabled flag
LoadModelByIdStartCacheFirst(registry, cache, id) ==
  IF registry[id] = Absent
    THEN NoDecode("notFound", Null, "not found in registry")
  ELSE IF cache[id] # Absent
    THEN NoDecode("cached", cache[id], "none")
  ELSE IF ~registry[id].enabled
    THEN NoDecode("disabled", Null, "is disabled")
  ELSE [path |-> "decode", ret |-> Pending, warn |-> "none",
        url |-> registry[id].url,
        excludeMeshes |-> registry[id].excludeMeshes]

\* Mutant of LoadModelByIdStart: no return after the not-found warning, so the
\* body goes on to read asset.enabled of undefined and the call rejects
LoadModelByIdStartNoReturn(registry, cache, id) ==
  IF registry[id] = Absent
    THEN NoDecode("notFound", TypeError, "not found in registry")
  ELSE IF ~registry[id].enabled
    THEN NoDecode("disabled", Null, "is disabled")
  ELSE IF cache[id] # Absent
    THEN NoDecode("cached", cache[id], "none")
  ELSE [path |-> "decode", ret |-> Pending, warn |-> "none",
        url |-> registry[id].url,
        excludeMeshes |-> registry[id].excludeMeshes]

LoadModelByIdStart(registry, cache, id) ==
  IF registry[id] = Absent
    THEN NoDecode("notFound", Null, "not found in registry")
  ELSE IF ~registry[id].enabled
    THEN NoDecode("disabled", Null, "is disabled")
  ELSE IF cache[id] # Absent
    THEN NoDecode("cached", cache[id], "none")
  ELSE [path |-> "decode", ret |-> Pending, warn |-> "none",
        url |-> registry[id].url,
        excludeMeshes |-> registry[id].excludeMeshes]

\* The set of earlier calls for `id` whose decode is still awaited
AwaitingCalls(id) ==
  {i \in DOMAIN calls : calls[i].id = id /\ calls[i].state = "awaiting"}

loadModelById(id) ==
  /\ Len(calls) < MaxCalls
  /\ LET start == LoadModelByIdStart(modelRegistry, loadedModels, id)
         decoding == start.path = "decode"
         call == [id |-> id,
                  path |-> start.path,
                  warn |-> start.warn,
                  state |-> IF start.ret = Pending THEN "awaiting"
                            ELSE IF start.ret = TypeError THEN "rejected"
                            ELSE "returned",
                  ret |-> start.ret,
                  decode |-> IF decoding THEN decodes + 1 ELSE 0,
                  excludeMeshes |-> start.excludeMeshes,
                  cachedAtCall |-> loadedModels[id] # Absent,
                  pendingAtCall |-> AwaitingCalls(id)]
     IN /\ calls' = Append(calls, call)
        /\ decodes' = IF decoding THEN decodes + 1 ELSE decodes
  /\ UNCHANGED <<modelRegistry, loadedModels, completedSince, scene,
                 fbxLoads>>
  /\ UNCHANGED notLoaderVars

\* Mutant of CacheAfterResolve: the resolved result is not stored
CacheAfterResolveNotStored(cache, id, result) == cache

\* The cache after the awaited loadModel resolved with `result`:
\* this.loadedModels.set(modelId, result)
CacheAfterResolve(cache, id, result) ==
  [cache EXCEPT ![id] = result]

\* gltfLoader.load succeeded for call i: loadModel resolves, the continuation
\* of loadModelById stores the result and returns it.
decodeResolved(i) ==
  /\ i \in DOMAIN calls
  /\ calls[i].state = "awaiting"
  /\ LET result == LoadedModel(calls[i].decode, calls[i].excludeMeshes)
     IN /\ loadedModels' = CacheAfterResolve(loadedModels, calls[i].id, result)
        /\ calls' = [calls EXCEPT ![i].state = "returned", ![i].ret = result]
  /\ completedSince' = [completedSince EXCEPT ![calls[i].id] = TRUE]
  /\ UNCHANGED <<modelRegistry, decodes, scene, fbxLoads>>
  /\ UNCHANGED notLoaderVars

\* Mutant of decodeRejected: the failure is stored as the result of the id
decodeRejectedStored(i) ==
  /\ i \in DOMAIN calls
  /\ calls[i].state = "awaiting"
  /\ calls' = [calls EXCEPT ![i].state = "rejected", ![i].ret = DecodeFailed]
  /\ loadedModels' = CacheAfterResolve(loadedModels, calls[i].id, DecodeFailed)
  /\ UNCHANGED <<modelRegistry, decodes, completedSince, scene, fbxLoads>>
  /\ UNCHANGED notLoaderVars

\* gltfLoader.load failed for call i: loadModel rejects and the rejection
\* propagates out of loadModelById; nothing is stored.
decodeRejected(i) ==
  /\ i \in DOMAIN calls
  /\ calls[i].state = "awaiting"
  /\ calls' = [calls EXCEPT ![i].state = "rejected", ![i].ret = DecodeFailed]
  /\ UNCHANGED <<modelRegistry, loadedModels, decodes, completedSince, scene,
                 fbxLoads>>
  /\ UNCHANGED notLoaderVars

-----------------------------------------------------------------------------
(* The loader specification *)

InitLoader ==
  /\ modelRegistry = [id \in ModelIds |-> Absent]
  /\ loadedModels = [id \in ModelIds |-> Absent]
  /\ calls = <<>>
  /\ decodes = 0
  /\ completedSince = [id \in ModelIds |-> FALSE]
  /\ scene = NoScene
  /\ fbxLoads = {}

NextLoader ==
  \/ \E id \in ModelIds, enabled \in BOOLEAN : registerModel(id, enabled)
  \/ \E id \in ModelIds, enabled \in BOOLEAN : setModelEnabled(id, enabled)
  \/ \E id \in ModelIds, meshNames \in ExcludeLists : setExcludedMeshes(id, meshNames)
  \/ \E id \in ModelIds : loadModelById(id)
  \/ \E i \in 1..MaxCalls : decodeResolved(i)
  \/ \E i \in 1..MaxCalls : decodeRejected(i)

\* The scenes handed to processMeshes: two nodes, each a mesh or a bone,
\* with no exclusion list or one of up to two names
NodeKinds == {"Mesh", "Bone"}

InitMeshes ==
  /\ modelRegistry = [id \in ModelIds |-> Absent]
  /\ loadedModels = [id \in ModelIds |-> Absent]
  /\ calls = <<>>
  /\ decodes = 0
  /\ completedSince = [id \in ModelIds |-> FALSE]
  /\ fbxLoads = {}
  /\ \E k1 \in NodeKinds, k2 \in NodeKinds, n1 \in PartNames, n2 \in PartNames,
        excluding \in BOOLEAN, excludeMeshes \in SUBSET ExcludedNames :
       /\ Cardinality(excludeMeshes) <= 2
       /\ excluding \/ excludeMeshes = {}
       /\ scene = [decoded |-> <<Object3D(k1, n1), Object3D(k2, n2)>>,
                   nodes |-> <<Object3D(k1, n1), Object3D(k2, n2)>>,
                   excluding |-> excluding,
                   excludeMeshes |-> excludeMeshes,
                   processed |-> FALSE]

\* The success callback of gltfLoader.load runs processMeshes on the scene
processMeshes ==
  /\ ~scene.processed
  /\ scene' = [scene EXCEPT
                 !.nodes = ProcessMeshes(scene.nodes, scene.excluding,
                                         scene.excludeMeshes),
                 !.processed = TRUE]
  /\ UNCHANGED <<modelRegistry, loadedModels, calls, decodes, completedSince,
                 fbxLoads>>
  /\ UNCHANGED notLoaderVars

NextMeshes == processMeshes

-----------------------------------------------------------------------------
(* Strings of the retargeting pass.  A string is the sequence of its tokens; *)
(* a template literal concatenates token sequences, "." is a token of its    *)
(* own, and String.split(".") cuts a string at its "." tokens.               *)

MaxTracks == 2

Dot == <<".">>

\* `${value}`: undefined prints as "undefined"
TemplateString(value) == IF value = Undefined THEN <<"undefined">> ELSE value

\* name.split("."): the components between the "." tokens
RECURSIVE SplitFrom(_, _, _)
SplitFrom(name, i, current) ==
  IF i > Len(name) THEN <<current>>
  ELSE IF name[i] = "." THEN <<current>> \o SplitFrom(name, i + 1, <<>>)
  ELSE SplitFrom(name, i + 1, Append(current, name[i]))

Split(name) == SplitFrom(name, 1, <<>>)

\* const [boneName, property] = track.name.split(".")
BoneNameOf(name) == Split(name)[1]

PropertyOf(name) ==
  IF Len(Split(name)) >= 2 THEN Split(name)[2] ELSE Undefined

\* property.includes("position")
IncludesPosition(property) ==
  \E i \in DOMAIN property : property[i] = "position"

-----------------------------------------------------------------------------
(* ModelLoader.generateBoneMapping *)

\* Mutant of rootBoneNames: the mixamorig-prefixed hip bone is missing
rootBoneNamesUnprefixed ==
  << <<"Hips">>, <<"Root">>, <<"Character">>, <<"Armature">> >>

rootBoneNames ==
  << <<"mixamorig", "Hips">>, <<"Hips">>, <<"Root">>, <<"Character">>,
     <<"Armature">> >>

boneNames ==
  << <<"Hips">>, <<"Spine">>, <<"Spine", "1">>, <<"Spine", "2">>, <<"Neck">>,
     <<"Head">>, <<"Shoulder">>, <<"Arm">>, <<"ForeArm">>, <<"Hand">>,
     <<"Hand", "Thumb", "1">>, <<"Hand", "Thumb", "2">>, <<"Hand", "Thumb", "3">>,
     <<"Hand", "Index", "1">>, <<"Hand", "Index", "2">>, <<"Hand", "Index", "3">>,
     <<"Hand", "Middle", "1">>, <<"Hand", "Middle", "2">>, <<"Hand", "Middle", "3">>,
     <<"Hand", "Ring", "1">>, <<"Hand", "Ring", "2">>, <<"Hand", "Ring", "3">>,
     <<"Hand", "Pinky", "1">>, <<"Hand", "Pinky", "2">>, <<"Hand", "Pinky", "3">>,
     <<"UpLeg">>, <<"Leg">>, <<"Foot">>, <<"ToeBase">> >>

sides == << <<"Left">>, <<"Right">> >>

centralBones ==
  << <<"Hips">>, <<"Spine">>, <<"Spine", "1">>, <<"Spine", "2">>, <<"Neck">>,
     <<"Head">> >>

ringParts == << <<"Ring", "1">>, <<"Ring", "2">>, <<"Ring", "3">> >>

Includes(list, x) == \E i \in DOMAIN list : list[i] = x

\* mapping[`mixamorig${bone}`] = bone, for the central bones
CentralAssignments ==
  [i \in DOMAIN centralBones |->
     << <<"mixamorig">> \o centralBones[i], centralBones[i] >>]

\* mapping[`mixamorig${side}${bone}`] = `${side}${bone}`, side by side, for
\* the bones that are not central
SidedAssignments ==
  LET n == Len(boneNames)
      pair(i) == [side |-> sides[((i - 1) \div n) + 1],
                  bone |-> boneNames[((i - 1) % n) + 1]]
      all == [i \in 1..(Len(sides) * n) |-> pair(i)]
      kept == SelectSeq(all, LAMBDA p : ~Includes(centralBones, p.bone))
  IN [i \in DOMAIN kept |->
        << <<"mixamorig">> \o kept[i].side \o kept[i].bone,
           kept[i].side \o kept[i].bone >>]

Digit(n) == IF n = 1 THEN "1" ELSE IF n = 2 THEN "2" ELSE "3"

\* mapping[`mixamorig${side}Hand${ringPart}`] = `${side}HandPinky${i + 1}`
RingAssignments ==
  LET n == Len(ringParts)
  IN [j \in 1..(Len(sides) * n) |->
        LET side == sides[((j - 1) \div n) + 1]
            i == (j - 1) % n
        IN << <<"mixamorig">> \o side \o <<"Hand">> \o ringParts[i + 1],
              side \o <<"Hand", "Pinky">> \o <<Digit(i + 1)>> >>]

\* The object left by the first n of a sequence of assignments
\* mapping[key] = value: a later assignment to a key replaces an earlier one.
RECURSIVE ObjectAfter(_, _)
ObjectAfter(assignments, n) ==
  IF n = 0 THEN <<>>
  ELSE (assignments[n][1] :> assignments[n][2])
         @@ ObjectAfter(assignments, n - 1)

ObjectOf(assignments) == ObjectAfter(assignments, Len(assignments))

\* The boneMapping literal of the earlier remapAnimationTracks, entry by entry
earlierBoneMapping ==
  (<<"mixamorig", "Hips">> :> <<"Hips">>) @@
  (<<"mixamorig", "Spine">> :> <<"Spine">>) @@
  (<<"mixamorig", "Spine", "1">> :> <<"Spine", "1">>) @@
  (<<"mixamorig", "Spine", "2">> :> <<"Spine", "2">>) @@
  (<<"mixamorig", "Neck">> :> <<"Neck">>) @@
  (<<"mixamorig", "Head">> :> <<"Head">>) @@
  (<<"mixamorig", "Left", "Shoulder">> :> <<"Left", "Shoulder">>) @@
  (<<"mixamorig", "Left", "Arm">> :> <<"Left", "Arm">>) @@
  (<<"mixamorig", "Left", "ForeArm">> :> <<"Left", "ForeArm">>) @@
  (<<"mixamorig", "Left", "Hand">> :> <<"Left", "Hand">>) @@
  (<<"mixamorig", "Left", "Hand", "Thumb", "1">> :> <<"Left", "Hand", "Thumb", "1">>) @@
  (<<"mixamorig", "Left", "Hand", "Thumb", "2">> :> <<"Left", "Hand", "Thumb", "2">>) @@
  (<<"mixamorig", "Left", "Hand", "Thumb", "3">> :> <<"Left", "Hand", "Thumb", "3">>) @@
  (<<"mixamorig", "Left", "Hand", "Index", "1">> :> <<"Left", "Hand", "Index", "1">>) @@
  (<<"mixamorig", "Left", "Hand", "Index", "2">> :> <<"Left", "Hand", "Index", "2">>) @@
  (<<"mixamorig", "Left", "Hand", "Index", "3">> :> <<"Left", "Hand", "Index", "3">>) @@
  (<<"mixamorig", "Left", "Hand", "Middle", "1">> :> <<"Left", "Hand", "Middle", "1">>) @@
  (<<"mixamorig", "Left", "Hand", "Middle", "2">> :> <<"Left", "Hand", "Middle", "2">>) @@
  (<<"mixamorig", "Left", "Hand", "Middle", "3">> :> <<"Left", "Hand", "Middle", "3">>) @@
  (<<"mixamorig", "Left", "Hand", "Ring", "1">> :> <<"Left", "Hand", "Pinky", "1">>) @@
  (<<"mixamorig", "Left", "Hand", "Ring", "2">> :> <<"Left", "Hand", "Pinky", "2">>) @@
  (<<"mixamorig", "Left", "Hand", "Ring", "3">> :> <<"Left", "Hand", "Pinky", "3">>) @@
  (<<"mixamorig", "Left", "Hand", "Pinky", "1">> :> <<"Left", "Hand", "Pinky", "1">>) @@
  (<<"mixamorig", "Left", "Hand", "Pinky", "2">> :> <<"Left", "Hand", "Pinky", "2">>) @@
  (<<"mixamorig", "Left", "Hand", "Pinky", "3">> :> <<"Left", "Hand", "Pinky", "3">>) @@
  (<<"mixamorig", "Right", "Shoulder">> :> <<"Right", "Shoulder">>) @@
  (<<"mixamorig", "Right", "Arm">> :> <<"Right", "Arm">>) @@
  (<<"mixamorig", "Right", "ForeArm">> :> <<"Right", "ForeArm">>) @@
  (<<"mixamorig", "Right", "Hand">> :> <<"Right", "Hand">>) @@
  (<<"mixamorig", "Right", "Hand", "Thumb", "1">> :> <<"Right", "Hand", "Thumb", "1">>) @@
  (<<"mixamorig", "Right", "Hand", "Thumb", "2">> :> <<"Right", "Hand", "Thumb", "2">>) @@
  (<<"mixamorig", "Right", "Hand", "Thumb", "3">> :> <<"Right", "Hand", "Thumb", "3">>) @@
  (<<"mixamorig", "Right", "Hand", "Index", "1">> :> <<"Right", "Hand", "Index", "1">>) @@
  (<<"mixamorig", "Right", "Hand", "Index", "2">> :> <<"Right", "Hand", "Index", "2">>) @@
  (<<"mixamorig", "Right", "Hand", "Index", "3">> :> <<"Right", "Hand", "Index", "3">>) @@
  (<<"mixamorig", "Right", "Hand", "Middle", "1">> :> <<"Right", "Hand", "Middle", "1">>) @@
  (<<"mixamorig", "Right", "Hand", "Middle", "2">> :> <<"Right", "Hand", "Middle", "2">>) @@
  (<<"mixamorig", "Right", "Hand", "Middle", "3">> :> <<"Right", "Hand", "Middle", "3">>) @@
  (<<"mixamorig", "Right", "Hand", "Ring", "1">> :> <<"Right", "Hand", "Pinky", "1">>) @@
  (<<"mixamorig", "Right", "Hand", "Ring", "2">> :> <<"Right", "Hand", "Pinky", "2">>) @@
  (<<"mixamorig", "Right", "Hand", "Ring", "3">> :> <<"Right", "Hand", "Pinky", "3">>) @@
  (<<"mixamorig", "Right", "Hand", "Pinky", "1">> :> <<"Right", "Hand", "Pinky", "1">>) @@
  (<<"mixamorig", "Right", "Hand", "Pinky", "2">> :> <<"Right", "Hand", "Pinky", "2">>) @@
  (<<"mixamorig", "Right", "Hand", "Pinky", "3">> :> <<"Right", "Hand", "Pinky", "3">>) @@
  (<<"mixamorig", "Left", "UpLeg">> :> <<"Left", "UpLeg">>) @@
  (<<"mixamorig", "Left", "Leg">> :> <<"Left", "Leg">>) @@
  (<<"mixamorig", "Left", "Foot">> :> <<"Left", "Foot">>) @@
  (<<"mixamorig", "Left", "ToeBase">> :> <<"Left", "ToeBase">>) @@
  (<<"mixamorig", "Right", "UpLeg">> :> <<"Right", "UpLeg">>) @@
  (<<"mixamorig", "Right", "Leg">> :> <<"Right", "Leg">>) @@
  (<<"mixamorig", "Right", "Foot">> :> <<"Right", "Foot">>) @@
  (<<"mixamorig", "Right", "ToeBase">> :> <<"Right", "ToeBase">>)

\* Mutant of generateBoneMapping: the bones of the right side are mapped to
\* the bones of the left, mapping[`mixamorig${side}${bone}`] = `Left${bone}`
generateBoneMappingLeftOnly ==
  LET mirrored == [j \in DOMAIN SidedAssignments |->
                     << SidedAssignments[j][1],
                        <<"Left">> \o Tail(SidedAssignments[j][2]) >>]
  IN ObjectOf(CentralAssignments \o mirrored \o RingAssignments)

\* Mutant of generateBoneMapping: the ring override keeps the mixamorig prefix
\* on its target, mapping[`mixamorig${side}Hand${ringPart}`] =
\* `mixamorig${side}HandPinky${i + 1}`
generateBoneMappingPrefixedOverride ==
  LET prefixed == [j \in DOMAIN RingAssignments |->
                     << RingAssignments[j][1],
                        <<"mixamorig">> \o RingAssignments[j][2] >>]
  IN ObjectOf(CentralAssignments \o SidedAssignments \o prefixed)

generateBoneMapping ==
  ObjectOf(CentralAssignments \o SidedAssignments \o RingAssignments)

-----------------------------------------------------------------------------
(* ModelLoader.createNewTrack, isRootPositionTrack, remapAnimationTracks *)

DefaultInterpolation == "InterpolateLinear"

\* A KeyframeTrack: its class, name, times, values and interpolation mode
KeyframeTrack(type, name, times, values, interpolation) ==
  [type |-> type, name |-> name, times |-> times, values |-> values,
   interpolation |-> interpolation]

\* Mutant of createNewTrack: the new track is built under the original name
createNewTrackKeepsName(trackName, originalTrack) ==
  [originalTrack EXCEPT !.interpolation = DefaultInterpolation]

\* The typed constructors take no interpolation argument and fall back on the
\* default one; any other class is rebuilt as a plain KeyframeTrack with the
\* original's interpolation.
createNewTrack(trackName, originalTrack) ==
  IF originalTrack.type \in {"QuaternionKeyframeTrack", "VectorKeyframeTrack",
                             "NumberKeyframeTrack"}
    THEN KeyframeTrack(originalTrack.type, trackName, originalTrack.times,
                       originalTrack.values, DefaultInterpolation)
    ELSE KeyframeTrack("KeyframeTrack", trackName, originalTrack.times,
                       originalTrack.values, originalTrack.interpolation)

\* rootBoneNames.includes(boneName) && property.includes("position"):
\* "throw" when the left side holds and property is undefined
isRootPositionTrack(boneName, property) ==
  IF ~Includes(rootBoneNames, boneName) THEN "false"
  ELSE IF property = Undefined THEN "throw"
  ELSE IF IncludesPosition(property) THEN "true"
  ELSE "false"

Thrown == TypeError

AnimationClip(name, duration, tracks) ==
  [name |-> name, duration |-> duration, tracks |-> tracks]

\* The for loop over clip.tracks from track i on, newTracks being
\* newClip.tracks so far: [threw, tracks] tells whether an exception left the
\* loop and what newClip.tracks holds at the end.
RECURSIVE RemapFrom(_, _, _, _)
RemapFrom(tracks, i, newTracks, boneMapping) ==
  IF i > Len(tracks) THEN [threw |-> FALSE, tracks |-> newTracks]
  ELSE
    LET track == tracks[i]
        boneName == BoneNameOf(track.name)
        property == PropertyOf(track.name)
        root == isRootPositionTrack(boneName, property)
    IN IF root = "throw" THEN [threw |-> TRUE, tracks |-> newTracks]
       ELSE IF root = "true"
         THEN RemapFrom(tracks, i + 1, newTracks, boneMapping)
       ELSE IF boneName \in DOMAIN boneMapping
         THEN LET newTrackName ==
                    boneMapping[boneName] \o Dot \o TemplateString(property)
              IN RemapFrom(tracks, i + 1,
                           Append(newTracks, createNewTrack(newTrackName, track)),
                           boneMapping)
       ELSE IF isRootPositionTrack(boneName, property) = "true"
         THEN RemapFrom(tracks, i + 1, newTracks, boneMapping)
       ELSE RemapFrom(tracks, i + 1, Append(newTracks, track), boneMapping)

\* The clip returned by remapAnimationTracks, or Thrown
remapAnimationTracks(c) ==
  LET loop == RemapFrom(c.tracks, 1, <<>>, generateBoneMapping)
  IN IF loop.threw THEN Thrown
     ELSE AnimationClip(c.name, c.duration, loop.tracks)

-----------------------------------------------------------------------------
(* The clips handed to the retargeting pass *)

BoneUniverse ==
  { <<"mixamorig", "Hips">>,                       \* root bone with a mapping
    <<"Hips">>,                                    \* root bone, no mapping
    <<"mixamorig", "Spine">>,                      \* mapped
    <<"mixamorig", "Left", "Hand", "Ring", "1">>,  \* mapped by the override
    <<"mixamorig", "Left", "Hand", "Pinky", "1">>, \* mapped to the same target
    <<"Foo">> }                                    \* no mapping

\* What follows the bone in a track name: nothing, or "." and a property
SuffixUniverse ==
  { <<>>, <<".", "position">>, <<".", "quaternion">>, <<".", "morph">> }

\* The track class goes with the property; a track without one is taken to
\* be of a class createNewTrack has no typed constructor for.
TrackClassOf(suffix) ==
  IF suffix = <<".", "position">> THEN "VectorKeyframeTrack"
  ELSE IF suffix = <<".", "quaternion">> THEN "QuaternionKeyframeTrack"
  ELSE IF suffix = <<".", "morph">> THEN "NumberKeyframeTrack"
  ELSE "BooleanKeyframeTrack"

\* Two keyframes per track; the sample values are tagged with the bone and the
\* suffix, so that the samples of different tracks differ.
TrackUniverse ==
  {KeyframeTrack(TrackClassOf(suffix), bone \o suffix, <<0, 1>>,
                 <<bone, suffix>>, "InterpolateDiscrete") :
     bone \in BoneUniverse, suffix \in SuffixUniverse}

TrackLists ==
  UNION {[1..n -> TrackUniverse] : n \in 0..MaxTracks}

ClipUniverse ==
  {AnimationClip("Walking", 2, tracks) : tracks \in TrackLists}

NotRun == [notRun |-> TRUE]

IsClip(c) == c # NotRun /\ c # Thrown

InitRetarget ==
  /\ clip \in ClipUniverse
  /\ remapped = NotRun
  /\ remappedAgain = NotRun

IdleRetarget ==
  /\ clip = AnimationClip("Walking", 2, <<>>)
  /\ remapped = NotRun
  /\ remappedAgain = NotRun

\* animations.map((clip) => this.remapAnimationTracks(clip))
Retarget ==
  /\ remapped = NotRun
  /\ remapped' = remapAnimationTracks(clip)
  /\ UNCHANGED <<clip, remappedAgain>>
  /\ UNCHANGED notRetargetVars

\* The retargeted clip is handed to remapAnimationTracks once more
RetargetAgain ==
  /\ IsClip(remapped)
  /\ remappedAgain = NotRun
  /\ remappedAgain' = remapAnimationTracks(remapped)
  /\ UNCHANGED <<clip, remapped>>
  /\ UNCHANGED notRetargetVars

NextRetarget ==
  \/ Retarget
  \/ RetargetAgain

-----------------------------------------------------------------------------
(* The frame loop, InputControls.keys and the two character classes.        *)
(* Time is counted in tenths of a second, speeds and heights in hundredths  *)
(* of a unit, vertical velocity in tenths of a unit per second: with these  *)
(* units every product of the code below is an integer.  The horizontal     *)
(* position, the facing angle and the animation mixer are not among the     *)
(* variables of this model.  Of the animation mixer the model keeps, for     *)
(* each clip action, whether it is running and how much of a fade-out is    *)
(* left.                                                                    *)

\* clock.getDelta(): a frame of half a second, which update caps
DeltaTimes == {5}

Min(a, b) == IF a <= b THEN a ELSE b

Max(a, b) == IF a >= b THEN a ELSE b

RECURSIVE Power(_, _)
Power(b, n) == IF n = 0 THEN 1 ELSE b * Power(b, n - 1)

\* InputControls.keyMap
keyMap ==
  [KeyW |-> "forward", KeyS |-> "backward", KeyA |-> "left", KeyD |-> "right",
   Space |-> "jump", KeyC |-> "crouch", ShiftLeft |-> "run",
   ShiftRight |-> "run", AltLeft |-> "walk", AltRight |-> "walk"]

\* The codes a keyboard event may carry: the mapped ones and one that is not
KeyCodes == DOMAIN keyMap \cup {"KeyQ"}

\* this.keys as the InputControls constructor leaves it
InitialKeys ==
  [forward |-> FALSE, backward |-> FALSE, left |-> FALSE, right |-> FALSE,
   jump |-> FALSE, crouch |-> FALSE, run |-> FALSE, walk |-> FALSE]

\* animationsToLoad, in loading order
AnimationNames == <<"idle", "walk", "run", "jump", "jumpRun">>

AnimationSet == {AnimationNames[i] : i \in DOMAIN AnimationNames}

\* The clips configured LoopOnce by configureJumpAnimation
LoopOnceClips == {"jump", "jumpRun"}

\* The HumanCharacter constructor; loadModel is awaiting loadModelById.
\* loading: 0 while the model is awaited, i while the i-th animation is
\* awaited, Len(AnimationNames) + 1 once loadModel has returned.
\* animations: clip name -> "none" (no action), "stopped" (not active or
\* disabled), "running" or "paused"; fadeOut: time left of a fade-out;
\* played: the action's time has moved on from the start of the clip.
NewHumanCharacter ==
  [class |-> "HumanCharacter",
   mixer |-> FALSE, isModelLoaded |-> FALSE, loading |-> 0,
   animations |-> [n \in AnimationSet |-> "none"],
   fadeOut |-> [n \in AnimationSet |-> 0],
   played |-> [n \in AnimationSet |-> FALSE],
   listening |-> FALSE,
   isOnGround |-> TRUE, isMoving |-> FALSE,
   moveSpeed |-> 500, runSpeed |-> 800, walkSpeed |-> 200,
   currentSpeed |-> 500, targetSpeed |-> 500, speedChangeRate |-> 5,
   jumpForce |-> 80, gravity |-> 25,
   movementState |-> "idle",
   wasRunningBeforeJump |-> FALSE, isJumping |-> FALSE,
   velocityY |-> 0, positionY |-> 0,
   cameraRotation |-> 31416]

\* The Character constructor
NewCharacter ==
  [class |-> "Character",
   isOnGround |-> FALSE, isMoving |-> FALSE,
   movementState |-> "idle",
   normalHeight |-> 200, crouchHeight |-> 100, height |-> 200,
   walkSpeed |-> 250, moveSpeed |-> 750, runSpeed |-> 1500,
   currentSpeed |-> 0, targetSpeed |-> 0, speedChangeRate |-> 20,
   jumpForce |-> 100, gravity |-> 20,
   velocityY |-> 0, positionY |-> 100,
   cameraRotation |-> 31416]

\* floor.position.y
floorY == 0

\* LerpSpeed without Math.min(1, ..)
LerpSpeedUnclamped(x, y, rate, deltaTime) ==
  LET t == rate * deltaTime
  IN ((10 - t) * x + t * y) \div 10

\* THREE.MathUtils.lerp(x, y, t) with t = Math.min(1, rate * deltaTime)
LerpSpeed(x, y, rate, deltaTime) ==
  LET t == Min(10, rate * deltaTime)
  IN ((10 - t) * x + t * y) \div 10

\* The direction keys set isMoving in handleMovement
DirectionHeld(k) == k.forward \/ k.backward \/ k.left \/ k.right

\* Both classes: the speed smoothing and the isMoving flag of handleMovement
HandleMovement(c, k, deltaTime) ==
  [c EXCEPT !.currentSpeed = LerpSpeed(c.currentSpeed, c.targetSpeed,
                                       c.speedChangeRate, deltaTime),
            !.isMoving = DirectionHeld(k)]

(* HumanCharacter *)

\* const cappedDeltaTime = Math.min(deltaTime, 0.3)
cappedDeltaTime(deltaTime) == Min(deltaTime, 3)

isAnyMovementKeyPressed(k) ==
  k.forward \/ k.backward \/ k.left \/ k.right \/ k.jump

determineJumpAnimationType(c) ==
  IF c.wasRunningBeforeJump THEN "jumpRun" ELSE "jump"

\* The clip updateAnimation picks for the movement state
targetAnimation(c) ==
  IF c.movementState = "run" THEN "run"
  ELSE IF c.movementState = "jumpRun" THEN "jumpRun"
  ELSE IF c.movementState = "jump" THEN "jump"
  ELSE IF c.movementState = "walk" THEN "walk"
  ELSE IF c.movementState = "normal" THEN "walk"
  ELSE "idle"

\* action.fadeOut(0.2)
fadeDuration == 2

\* updateAnimation returns early without a mixer, without animations,
\* without an action for the target and when the target is running;
\* otherwise it fades the other running actions out and restarts the target,
\* and a start of the jump clip registers onJumpAnimationComplete.
\* updateAnimation restarting the target clip though it is running
updateAnimationAnew(c) ==
  LET target == targetAnimation(c)
  IN IF ~c.mixer \/ \A n \in AnimationSet : c.animations[n] = "none" THEN c
     ELSE IF c.animations[target] = "none" THEN c
     ELSE [c EXCEPT
             !.animations = [c.animations EXCEPT ![target] = "running"],
             !.fadeOut = [n \in AnimationSet |->
                            IF n = target THEN 0
                            ELSE IF c.animations[n] = "running"
                              THEN fadeDuration
                            ELSE c.fadeOut[n]],
             !.played = [c.played EXCEPT ![target] = FALSE],
             !.listening = c.listening \/ target = "jump"]

updateAnimation(c) ==
  LET target == targetAnimation(c)
  IN IF ~c.mixer \/ \A n \in AnimationSet : c.animations[n] = "none" THEN c
     ELSE IF c.animations[target] = "none" THEN c
     ELSE IF c.animations[target] = "running" THEN c
     ELSE [c EXCEPT
             !.animations = [c.animations EXCEPT ![target] = "running"],
             !.fadeOut = [n \in AnimationSet |->
                            IF n = target THEN 0
                            ELSE IF c.animations[n] = "running"
                              THEN fadeDuration
                            ELSE c.fadeOut[n]],
             !.played = [c.played EXCEPT ![target] = FALSE],
             !.listening = c.listening \/ target = "jump"]

\* The state resolution of updateMovementState, before its updateAnimation
ResolveMovementState(c, k) ==
  LET tracked ==
        IF c.movementState = "run" /\ k.jump /\ c.isOnGround
          THEN [c EXCEPT !.wasRunningBeforeJump = TRUE]
        ELSE IF c.isOnGround
          THEN [c EXCEPT !.wasRunningBeforeJump = FALSE]
        ELSE c
  IN IF ~isAnyMovementKeyPressed(k)
       THEN [tracked EXCEPT !.movementState = "idle", !.targetSpeed = 0]
     ELSE IF k.run /\ isAnyMovementKeyPressed(k)
       THEN [tracked EXCEPT !.movementState = "run",
                            !.targetSpeed = c.runSpeed]
     ELSE IF k.walk /\ isAnyMovementKeyPressed(k)
       THEN [tracked EXCEPT !.movementState = "walk",
                            !.targetSpeed = c.walkSpeed]
     ELSE [tracked EXCEPT !.movementState = "normal",
                          !.targetSpeed = c.moveSpeed]

HumanUpdateMovementState(c, k) ==
  IF c.isJumping THEN c
  ELSE updateAnimation(ResolveMovementState(c, k))

\* mixer.update(deltaTime), finished being the LoopOnce actions that reach
\* the end of their clip in this update: a running action is paused at the
\* end of its clip and disabled at the end of its fade-out, and the
\* "finished" event runs onJumpAnimationComplete if it is registered.
MixerUpdate(c, deltaTime, finished) ==
  [c EXCEPT
     !.animations = [n \in AnimationSet |->
                       IF c.animations[n] # "running" THEN c.animations[n]
                       ELSE IF n \in finished THEN "paused"
                       ELSE IF c.fadeOut[n] > 0 /\ c.fadeOut[n] <= deltaTime
                         THEN "stopped"
                       ELSE "running"],
     !.fadeOut = [n \in AnimationSet |->
                    IF c.animations[n] = "running" /\ n \notin finished
                       /\ c.fadeOut[n] > deltaTime
                      THEN c.fadeOut[n] - deltaTime
                      ELSE 0],
     !.played = [n \in AnimationSet |->
                   (c.animations[n] = "running" /\ deltaTime # 0)
                     \/ c.played[n]],
     !.isJumping = IF finished # {} /\ c.listening THEN FALSE
                   ELSE c.isJumping]

\* The LoopOnce actions that may reach the end of their clip: the length of
\* a clip is the asset's
MayFinish(c) == {n \in LoopOnceClips : c.animations[n] = "running"}

terminalVelocity == -500

\* handleJump with the jump taken whenever the key is held, in the air too
HumanHandleJumpInAir(c, k, deltaTime) ==
  LET pulled == c.velocityY - c.gravity * deltaTime
      capped == IF pulled < terminalVelocity THEN terminalVelocity ELSE pulled
      jumped ==
        IF k.jump
          THEN updateAnimation(
                 [c EXCEPT !.velocityY = c.jumpForce,
                           !.isOnGround = FALSE,
                           !.movementState = determineJumpAnimationType(c),
                           !.isJumping = TRUE])
          ELSE [c EXCEPT !.velocityY = capped]
  IN [jumped EXCEPT !.positionY = c.positionY + jumped.velocityY * deltaTime]

HumanHandleJump(c, k, deltaTime) ==
  LET pulled == c.velocityY - c.gravity * deltaTime
      capped == IF pulled < terminalVelocity THEN terminalVelocity ELSE pulled
      jumped ==
        IF k.jump /\ c.isOnGround
          THEN updateAnimation(
                 [c EXCEPT !.velocityY = c.jumpForce,
                           !.isOnGround = FALSE,
                           !.movementState = determineJumpAnimationType(c),
                           !.isJumping = TRUE])
          ELSE [c EXCEPT !.velocityY = capped]
  IN [jumped EXCEPT !.positionY = c.positionY + jumped.velocityY * deltaTime]

collisionBuffer == 1

\* Mutant of HumanCheckCollisions: landing leaves isJumping as it is
HumanCheckCollisionsKeepsJumping(c) ==
  IF c.positionY <= floorY + collisionBuffer
    THEN [c EXCEPT !.positionY = floorY, !.velocityY = 0,
                   !.isOnGround = TRUE]
    ELSE [c EXCEPT !.isOnGround = FALSE]

\* checkCollisions without the clamp of position.y to the floor
HumanCheckCollisionsUnclamped(c) ==
  IF c.positionY <= floorY + collisionBuffer
    THEN [c EXCEPT !.velocityY = 0, !.isOnGround = TRUE, !.isJumping = FALSE]
    ELSE [c EXCEPT !.isOnGround = FALSE]

HumanCheckCollisions(c) ==
  IF c.positionY <= floorY + collisionBuffer
    THEN [c EXCEPT !.positionY = floorY, !.velocityY = 0,
                   !.isOnGround = TRUE, !.isJumping = FALSE]
    ELSE [c EXCEPT !.isOnGround = FALSE]

(* Character *)

CharacterUpdateMovementState(c, k) ==
  LET pressed == k.forward \/ k.backward \/ k.left \/ k.right
  IN IF ~pressed /\ c.isOnGround
       THEN [c EXCEPT !.movementState = "idle", !.targetSpeed = 0]
     ELSE IF k.jump /\ ~c.isOnGround
       THEN [c EXCEPT !.movementState = "jump"]
     ELSE IF k.crouch
       THEN [c EXCEPT !.movementState = "crouch",
                      !.targetSpeed = c.walkSpeed \div 2]
     ELSE IF k.run /\ pressed
       THEN [c EXCEPT !.movementState = "run", !.targetSpeed = c.runSpeed]
     ELSE IF k.walk /\ pressed
       THEN [c EXCEPT !.movementState = "walk", !.targetSpeed = c.walkSpeed]
     ELSE IF pressed
       THEN [c EXCEPT !.movementState = "normal", !.targetSpeed = c.moveSpeed]
     ELSE c

CharacterHandleJump(c, k, deltaTime) ==
  LET pulled == c.velocityY - c.gravity * deltaTime
      jumped ==
        IF k.jump /\ c.isOnGround
          THEN [c EXCEPT !.velocityY = c.jumpForce, !.isOnGround = FALSE]
          ELSE [c EXCEPT !.velocityY = pulled]
  IN [jumped EXCEPT !.positionY = c.positionY + jumped.velocityY * deltaTime]

\* handleCrouch with updateCharacterHeight: the feet stay at their level
CharacterHandleCrouch(c, k) ==
  LET shift == (c.normalHeight - c.crouchHeight) \div 2
  IN IF k.crouch
       THEN IF c.height # c.crouchHeight
              THEN [c EXCEPT !.height = c.crouchHeight,
                             !.positionY = c.positionY - shift]
              ELSE c
       ELSE IF c.height # c.normalHeight
              THEN [c EXCEPT !.height = c.normalHeight,
                             !.positionY = c.positionY + shift]
              ELSE c

CharacterCheckCollisions(c) ==
  LET characterBottom == c.positionY - c.height \div 2
  IN IF characterBottom <= 0
       THEN [c EXCEPT !.positionY = c.height \div 2, !.velocityY = 0,
                      !.isOnGround = TRUE]
       ELSE [c EXCEPT !.isOnGround = FALSE]

\* animateWalkRun: bodyBounce = |sin(..)| * 0.05 * currentSpeed / moveSpeed,
\* of which the model keeps the values 0 and, when fast enough, 0.05
BodyBounces(c) == {b \in {0, 5} : b * c.moveSpeed <= 5 * c.currentSpeed}

\* updateAnimations taking the character off the ground when it bounces
CharacterUpdateAnimationsLifting(c, bodyBounce) ==
  IF c.movementState \in {"idle", "jump", "crouch"} THEN c
  ELSE [c EXCEPT !.positionY = c.height \div 2 + bodyBounce,
                 !.isOnGround = (bodyBounce = 0)]

\* updateAnimations: only the walk/run animation touches the body
CharacterUpdateAnimations(c, bodyBounce) ==
  IF c.movementState \in {"idle", "jump", "crouch"} THEN c
  ELSE [c EXCEPT !.positionY = c.height \div 2 + bodyBounce]

(* The mouse and the camera of Game.  Angles, the camera yaw stored in the  *)
(* character among them, are in ten-thousandths of a radian and rounded to  *)
(* that unit; mouse movement and the wheel delta are in tenths; distances   *)
(* are in units of 1 / DistanceScale, fine enough for MaxWheels zoom steps. *)
(* camera.position and the look target, which only the renderer reads, are  *)
(* not followed.                                                            *)

\* The mouse-move events that record a movement, and the wheel events, that
\* are followed
MaxMouseMoves == 1

MaxWheels == 1

DistanceScale == Power(100, MaxWheels)

\* InputControls.constructor: this.mouse.  pointerLockRequested is the
\* document's side of requestPointerLock: a request the browser has not
\* answered; moves and wheels count the events.
NewMouse ==
  [isLocked |-> FALSE, isDragging |-> FALSE, rightButtonDown |-> FALSE,
   movementX |-> 0, movementY |-> 0, wheelDelta |-> 0,
   pointerLockRequested |-> FALSE, moves |-> 0, wheels |-> 0]

\* The camera fields of a new Game
NewCamera ==
  [cameraRotation |-> 0, targetCameraRotation |-> 0,
   cameraPitch |-> 0, targetCameraPitch |-> 0,
   cameraOffsetY |-> 3 * DistanceScale,
   cameraOffsetZ |-> 8 * DistanceScale,
   targetCameraOffsetY |-> 3 * DistanceScale,
   targetCameraOffsetZ |-> 8 * DistanceScale]

minZoomDistance == 2 * DistanceScale

maxZoomDistance == 15 * DistanceScale

\* cameraLerpFactor = 0.3
cameraLerpFactor == 3

\* -Math.PI / 2.5 and Math.PI / 4
minCameraPitch == -12566

maxCameraPitch == 7854

\* No mouse event arrives and the camera stays where the constructor put it
IdleCamera ==
  /\ mouse = NewMouse
  /\ camera = NewCamera

\* The mouse axes of the mousemove events
MouseMovements == {<<5, 0>>, <<0, 5>>, <<-15, 0>>}

Abs(x) == IF x >= 0 THEN x ELSE -x

\* event.movement * sensitivity * dampeningFactor, with sensitivity 0.6 and
\* dampeningFactor = Math.min(1, 10 / (|movementX| + |movementY| + 5))
DampenedMovement(d, movement) ==
  IF Abs(movement[1]) + Abs(movement[2]) + 5 <= 10 THEN d * 6
  ELSE IF d >= 0 THEN (d * 60) \div (Abs(movement[1]) + Abs(movement[2]) + 5)
  ELSE -((-d * 60) \div (Abs(movement[1]) + Abs(movement[2]) + 5))

OnMouseMove(m, movement) ==
  IF m.isLocked /\ m.rightButtonDown
    THEN [m EXCEPT !.movementX = DampenedMovement(movement[1], movement),
                   !.movementY = DampenedMovement(movement[2], movement),
                   !.moves = @ + 1]
    ELSE [m EXCEPT !.movementX = 0, !.movementY = 0]

HandleMouseButtonEvent(m, button, isButtonDown) ==
  IF button = 0 THEN [m EXCEPT !.isDragging = isButtonDown]
  ELSE IF button = 2
    THEN [m EXCEPT !.rightButtonDown = isButtonDown,
                   !.pointerLockRequested =
                      IF isButtonDown THEN ~m.isLocked ELSE @]
  ELSE m

\* this.mouse.wheelDelta = Math.sign(event.deltaY) * 0.3
OnMouseWheel(m, sign) == [m EXCEPT !.wheelDelta = sign * 3, !.wheels = @ + 1]

\* resetMouseMovement leaving the wheel delta behind
resetMouseMovementOnly(m) ==
  [m EXCEPT !.movementX = 0, !.movementY = 0]

resetMouseMovement(m) ==
  [m EXCEPT !.movementX = 0, !.movementY = 0, !.wheelDelta = 0]

getLerpFactor(isActive, activeFactor) ==
  IF isActive THEN activeFactor ELSE cameraLerpFactor

\* THREE.MathUtils.lerp(x, y, t) for t in tenths, to the whole unit next
\* towards y
LerpRounded(x, y, t) ==
  IF y >= x THEN x + ((y - x) * t + 9) \div 10
  ELSE x - ((x - y) * t + 9) \div 10

\* The clamp without its upper limit
clampFromBelow(x, lo, hi) == IF x < lo THEN lo ELSE x

clamp(x, lo, hi) == Max(lo, Min(hi, x))

\* The zoom step of handleCameraMovement with the distance scaled by
\* currentDistance / 5
ZoomedDistance(currentDistance, wheelDelta) ==
  clamp(currentDistance + (wheelDelta * currentDistance) \div 50,
        minZoomDistance, maxZoomDistance)

\* targetCameraOffset.y for a new distance: lerp(3, 3.5, (4 - d) / 2) below 4
ZoomedHeight(newDistance) ==
  IF newDistance < 4 * DistanceScale
    THEN 3 * DistanceScale + (4 * DistanceScale - newDistance) \div 4
    ELSE 3 * DistanceScale

\* Game.handleCameraMovement on the camera fields
HandleCameraMovement(cam, m) ==
  LET turned ==
        IF m.rightButtonDown
          THEN [cam EXCEPT
                  !.targetCameraRotation = @ - m.movementX * 3,
                  !.targetCameraPitch =
                     clamp(@ + m.movementY * 3, minCameraPitch, maxCameraPitch)]
          ELSE cam
      zoomed ==
        IF m.wheelDelta # 0
          THEN [turned EXCEPT
                  !.targetCameraOffsetZ = ZoomedDistance(@, m.wheelDelta),
                  !.targetCameraOffsetY =
                     ZoomedHeight(ZoomedDistance(cam.targetCameraOffsetZ,
                                                 m.wheelDelta))]
          ELSE turned
      rotationLerpFactor == getLerpFactor(m.rightButtonDown, 5)
  IN [zoomed EXCEPT
        !.cameraRotation = LerpRounded(@, zoomed.targetCameraRotation,
                                       rotationLerpFactor),
        !.cameraPitch = LerpRounded(@, zoomed.targetCameraPitch,
                                    rotationLerpFactor),
        !.cameraOffsetY = LerpRounded(@, zoomed.targetCameraOffsetY,
                                      cameraLerpFactor),
        !.cameraOffsetZ = LerpRounded(@, zoomed.targetCameraOffsetZ,
                                      cameraLerpFactor)]

(* The frame loop.  frame.order lists the handlers the frame has run. *)

BetweenFrames == [pc |-> "animate", deltaTime |-> 0, order |-> <<>>]

At(class, pc) == character.class = class /\ frame.pc = pc

\* The step at frame.pc is done, having made the calls, and pc is next
GotoAfter(pc, made) ==
  frame' = [frame EXCEPT !.pc = pc, !.order = Append(@, frame.pc) \o made]

Goto(pc) == GotoAfter(pc, <<>>)

\* InputControls.handleKeyEvent; events are dispatched between frames
handleKeyEvent(code, isKeyDown) ==
  /\ frame.pc = "animate"
  /\ keys' = IF code \in DOMAIN keyMap /\ keyMap[code] \in DOMAIN keys
               THEN [keys EXCEPT ![keyMap[code]] = isKeyDown]
               ELSE keys
  /\ UNCHANGED <<character, frame>>
  /\ UNCHANGED notMovementVars

\* A key goes down (or repeats while it is held) or a key that is down goes
\* up; the keydown / keyup listener calls handleKeyEvent(event, isKeyDown)
keyboardEvent(code, isKeyDown) ==
  /\ frame.pc = "animate"
  /\ isKeyDown \/ code \in keysDown
  /\ keysDown' = IF isKeyDown THEN keysDown \cup {code}
                 ELSE keysDown \ {code}
  /\ keys' = IF code \in DOMAIN keyMap /\ keyMap[code] \in DOMAIN keys
               THEN [keys EXCEPT ![keyMap[code]] = isKeyDown]
               ELSE keys
  /\ UNCHANGED <<character, frame>>
  /\ UNCHANGED <<loaderVars, retargetVars, cameraVars, facingVars>>

NextKeyboard ==
  \E code \in KeyCodes, isKeyDown \in BOOLEAN : keyboardEvent(code, isKeyDown)

\* Game.animate takes the clock's delta and enters character.update
animate(deltaTime) ==
  /\ frame.pc = "animate"
  /\ frame' = IF character.class = "HumanCharacter"
                THEN [pc |-> "update",
                      deltaTime |-> cappedDeltaTime(deltaTime),
                      order |-> <<>>]
                ELSE [pc |-> "updateMovementState", deltaTime |-> deltaTime,
                      order |-> <<>>]
  /\ UNCHANGED <<keys, character>>
  /\ UNCHANGED notMovementVars

\* The continuation of loadModel after loadModelById: with a model it
\* creates the mixer and loadAnimations awaits the first clip, without one
\* the error is caught and loadModel returns.
HumanCharacter_loadModel(loaded) ==
  /\ At("HumanCharacter", "animate")
  /\ character.loading = 0
  /\ character' = IF loaded
                    THEN [character EXCEPT !.mixer = TRUE, !.loading = 1]
                    ELSE [character EXCEPT
                            !.loading = Len(AnimationNames) + 1]
  /\ UNCHANGED <<keys, frame>>
  /\ UNCHANGED notMovementVars

\* What loadAnimations does when the clip it awaits arrives (loaded) or
\* fails to: it keeps an action for the clip and awaits the next one, and
\* after the last one it plays idle and loadModel sets isModelLoaded.
\* loadAnimations giving up at the first clip that fails to load
AfterAnimationLoadedOrAbort(c, loaded) ==
  LET name == AnimationNames[c.loading]
      kept == IF loaded
                THEN [c EXCEPT !.animations[name] = "stopped"]
                ELSE c
  IN IF ~loaded THEN [c EXCEPT !.loading = Len(AnimationNames) + 1]
     ELSE IF c.loading < Len(AnimationNames)
       THEN [kept EXCEPT !.loading = c.loading + 1]
       ELSE [kept EXCEPT
               !.loading = c.loading + 1,
               !.isModelLoaded = TRUE,
               !.animations["idle"] =
                  IF kept.animations["idle"] = "stopped" THEN "running"
                  ELSE kept.animations["idle"]]

AfterAnimationLoaded(c, loaded) ==
  LET name == AnimationNames[c.loading]
      kept == IF loaded
                THEN [c EXCEPT !.animations[name] = "stopped"]
                ELSE c
  IN IF c.loading < Len(AnimationNames)
       THEN [kept EXCEPT !.loading = c.loading + 1]
       ELSE [kept EXCEPT
               !.loading = c.loading + 1,
               !.isModelLoaded = TRUE,
               !.animations["idle"] =
                  IF kept.animations["idle"] = "stopped" THEN "running"
                  ELSE kept.animations["idle"]]

\* The clips whose loading is let fail
MayFailToLoad == {"idle", "jumpRun"}

\* The continuation of loadAnimations after the clip it awaits, the clips
\* in failing being those whose loading may fail
HumanCharacter_loadAnimationsOf(failing, loaded) ==
  /\ At("HumanCharacter", "animate")
  /\ character.loading \in DOMAIN AnimationNames
  /\ loaded \/ AnimationNames[character.loading] \in failing
  /\ character' = AfterAnimationLoaded(character, loaded)
  /\ UNCHANGED <<keys, frame>>
  /\ UNCHANGED notMovementVars

HumanCharacter_loadAnimations(loaded) ==
  HumanCharacter_loadAnimationsOf(MayFailToLoad, loaded)

\* animationsToLoad of loadAnimations: the asset id of each clip name
animationsToLoad ==
  [idle |-> "idleAnimation", walk |-> "walkAnimation", run |-> "runAnimation",
   jump |-> "jumpAnimation", jumpRun |-> "jumpRunAnimation"]

AnimationIds == {animationsToLoad[n] : n \in AnimationSet}

\* The registry as the HumanCharacter constructor leaves it: every animation
\* asset registered with enabled true
ConstructedRegistry ==
  [id \in AnimationIds |-> ModelAsset(<<"/models/animations/", id>>, TRUE,
                                      Undefined)]

\* One pass of the loop of loadAnimations, for the clip at character.loading:
\* getRegisteredModels().find by id; an id that is not registered is skipped;
\* otherwise the url of the asset goes to loadExternalAnimations, which hands
\* it to fbxLoader.load, and the clip that arrives (loaded) gets an action.
HumanCharacter_loadAnimationsById(loaded) ==
  /\ At("HumanCharacter", "animate")
  /\ character.loading \in DOMAIN AnimationNames
  /\ LET id == animationsToLoad[AnimationNames[character.loading]]
         registeredModel == modelRegistry[id]
     IN IF registeredModel = Absent
          THEN /\ character' = AfterAnimationLoaded(character, FALSE)
               /\ UNCHANGED fbxLoads
          ELSE /\ character' = AfterAnimationLoaded(character, loaded)
               /\ fbxLoads' = fbxLoads \cup {id}
  /\ UNCHANGED <<modelRegistry, loadedModels, calls, decodes, completedSince,
                 scene>>
  /\ UNCHANGED <<keys, frame>>
  /\ UNCHANGED <<retargetVars, cameraVars, facingVars, keyboardVars>>

\* The registry of the animation assets while a character is set up
InitAssets ==
  /\ modelRegistry = ConstructedRegistry
  /\ loadedModels = [id \in AnimationIds |-> Absent]
  /\ calls = <<>>
  /\ decodes = 0
  /\ completedSince = [id \in AnimationIds |-> FALSE]
  /\ scene = NoScene
  /\ fbxLoads = {}

NextAssets ==
  \/ \E id \in AnimationIds, enabled \in BOOLEAN : setModelEnabled(id, enabled)
  \/ \E loaded \in BOOLEAN : HumanCharacter_loadModel(loaded)
  \/ \E loaded \in BOOLEAN : HumanCharacter_loadAnimationsById(loaded)

\* update caps deltaTime and advances the mixer, if there is one
HumanCharacter_update ==
  /\ At("HumanCharacter", "update")
  /\ IF character.mixer
       THEN \E finished \in SUBSET MayFinish(character) :
              character' = MixerUpdate(character, frame.deltaTime, finished)
       ELSE character' = character
  /\ Goto("updateMovementState")
  /\ UNCHANGED keys
  /\ UNCHANGED notMovementVars

HumanCharacter_updateMovementState ==
  /\ At("HumanCharacter", "updateMovementState")
  /\ character' = HumanUpdateMovementState(character, keys)
  /\ GotoAfter("handleMovement",
               IF character.isJumping THEN <<>> ELSE <<"updateAnimation">>)
  /\ UNCHANGED keys
  /\ UNCHANGED notMovementVars

HumanCharacter_handleMovement ==
  /\ At("HumanCharacter", "handleMovement")
  /\ character' = HandleMovement(character, keys, frame.deltaTime)
  /\ Goto("handleJump")
  /\ UNCHANGED keys
  /\ UNCHANGED notMovementVars

HumanCharacter_handleJump ==
  /\ At("HumanCharacter", "handleJump")
  /\ character' = HumanHandleJump(character, keys, frame.deltaTime)
  /\ GotoAfter("checkCollisions",
               IF keys.jump /\ character.isOnGround
                 THEN <<"updateAnimation">> ELSE <<>>)
  /\ UNCHANGED keys
  /\ UNCHANGED notMovementVars

\* The last step of update; animate goes on to the camera
HumanCharacter_checkCollisions ==
  /\ At("HumanCharacter", "checkCollisions")
  /\ character' = HumanCheckCollisions(character)
  /\ Goto("handleCameraMovement")
  /\ UNCHANGED keys
  /\ UNCHANGED notMovementVars

Character_updateMovementState ==
  /\ At("Character", "updateMovementState")
  /\ character' = CharacterUpdateMovementState(character, keys)
  /\ Goto("handleMovement")
  /\ UNCHANGED keys
  /\ UNCHANGED notMovementVars

Character_handleMovement ==
  /\ At("Character", "handleMovement")
  /\ character' = HandleMovement(character, keys, frame.deltaTime)
  /\ Goto("handleJump")
  /\ UNCHANGED keys
  /\ UNCHANGED notMovementVars

Character_handleJump ==
  /\ At("Character", "handleJump")
  /\ character' = CharacterHandleJump(character, keys, frame.deltaTime)
  /\ Goto("handleCrouch")
  /\ UNCHANGED keys
  /\ UNCHANGED notMovementVars

Character_handleCrouch ==
  /\ At("Character", "handleCrouch")
  /\ character' = CharacterHandleCrouch(character, keys)
  /\ Goto("checkCollisions")
  /\ UNCHANGED keys
  /\ UNCHANGED notMovementVars

Character_checkCollisions ==
  /\ At("Character", "checkCollisions")
  /\ character' = CharacterCheckCollisions(character)
  /\ Goto("updateAnimations")
  /\ UNCHANGED keys
  /\ UNCHANGED notMovementVars

Character_updateAnimations ==
  /\ At("Character", "updateAnimations")
  /\ \E bodyBounce \in BodyBounces(character) :
       character' = CharacterUpdateAnimations(character, bodyBounce)
  /\ Goto("handleCameraMovement")
  /\ UNCHANGED keys
  /\ UNCHANGED notMovementVars

\* Game.handleCameraMovement: the camera follows the mouse, hands its yaw to
\* the character and resets the mouse movement
Game_handleCameraMovement ==
  /\ frame.pc = "handleCameraMovement"
  /\ camera' = HandleCameraMovement(camera, mouse)
  /\ character' =
       [character EXCEPT
          !.cameraRotation = HandleCameraMovement(camera, mouse).cameraRotation]
  /\ mouse' = resetMouseMovement(mouse)
  /\ GotoAfter("render", <<"setRotationFromCamera">>)
  /\ UNCHANGED <<keys, loaderVars, retargetVars, facingVars,
                 keyboardVars>>

\* renderer.render ends the frame; animate returns to the event loop
Game_render ==
  /\ frame.pc = "render"
  /\ frame' = BetweenFrames
  /\ UNCHANGED <<keys, character>>
  /\ UNCHANGED notMovementVars

\* The mouse events, dispatched between frames
handleMouseButtonEvent(button, isButtonDown) ==
  /\ frame.pc = "animate"
  /\ mouse' = HandleMouseButtonEvent(mouse, button, isButtonDown)
  /\ UNCHANGED camera
  /\ UNCHANGED notCameraVars

onMouseMove(movement) ==
  /\ frame.pc = "animate"
  /\ (mouse.isLocked /\ mouse.rightButtonDown) => mouse.moves < MaxMouseMoves
  /\ mouse' = OnMouseMove(mouse, movement)
  /\ UNCHANGED camera
  /\ UNCHANGED notCameraVars

onMouseWheel(sign) ==
  /\ frame.pc = "animate"
  /\ mouse.wheels < MaxWheels
  /\ mouse' = OnMouseWheel(mouse, sign)
  /\ UNCHANGED camera
  /\ UNCHANGED notCameraVars

\* pointerlockchange: the browser grants a request, or the lock is given up
\* (exitPointerLock, Escape); isLocked = (pointerLockElement === body)
onPointerLockChange(locked) ==
  /\ frame.pc = "animate"
  /\ IF locked THEN mouse.pointerLockRequested /\ ~mouse.isLocked
     ELSE mouse.isLocked
  /\ mouse' = [mouse EXCEPT !.isLocked = locked,
                            !.pointerLockRequested = FALSE]
  /\ UNCHANGED camera
  /\ UNCHANGED notCameraVars

\* No game is running: the loader and the retargeting pass on their own
IdleMovement ==
  /\ keys = InitialKeys
  /\ keysDown = {}
  /\ character = NewHumanCharacter
  /\ frame = BetweenFrames

\* A game is built around a character of either class
InitMovement ==
  /\ keys = InitialKeys
  /\ keysDown = {}
  /\ character \in {NewHumanCharacter, NewCharacter}
  /\ frame = BetweenFrames

NextMovement ==
  \/ \E code \in KeyCodes, isKeyDown \in BOOLEAN : handleKeyEvent(code, isKeyDown)
  \/ \E deltaTime \in DeltaTimes : animate(deltaTime)
  \/ HumanCharacter_update
  \/ HumanCharacter_updateMovementState
  \/ HumanCharacter_handleMovement
  \/ HumanCharacter_handleJump
  \/ HumanCharacter_checkCollisions
  \/ Character_updateMovementState
  \/ Character_handleMovement
  \/ Character_handleJump
  \/ Character_handleCrouch
  \/ Character_checkCollisions
  \/ Character_updateAnimations
  \/ Game_handleCameraMovement
  \/ Game_render

\* A game around a HumanCharacter whose model and clips arrive, or fail to,
\* while the frame loop runs
\* The keys pressed in such a game: one direction key, jump, run and walk
AnimationKeyCodes == {"KeyW", "Space", "ShiftLeft", "AltLeft"}

InitAnimation ==
  /\ keys = InitialKeys
  /\ keysDown = {}
  /\ character = NewHumanCharacter
  /\ frame = BetweenFrames

NextAnimation ==
  \/ \E code \in AnimationKeyCodes, isKeyDown \in BOOLEAN :
       handleKeyEvent(code, isKeyDown)
  \/ \E deltaTime \in DeltaTimes : animate(deltaTime)
  \/ \E loaded \in BOOLEAN : HumanCharacter_loadModel(loaded)
  \/ \E loaded \in BOOLEAN : HumanCharacter_loadAnimations(loaded)
  \/ HumanCharacter_update
  \/ HumanCharacter_updateMovementState
  \/ HumanCharacter_handleMovement
  \/ HumanCharacter_handleJump
  \/ HumanCharacter_checkCollisions
  \/ Game_handleCameraMovement
  \/ Game_render

\* A game whose model and clips, any of them, arrive or fail to while the
\* player only jumps
LoadingKeyCodes == {"Space"}

NextLoading ==
  \/ \E code \in LoadingKeyCodes, isKeyDown \in BOOLEAN :
       handleKeyEvent(code, isKeyDown)
  \/ \E deltaTime \in DeltaTimes : animate(deltaTime)
  \/ \E loaded \in BOOLEAN : HumanCharacter_loadModel(loaded)
  \/ \E loaded \in BOOLEAN :
       HumanCharacter_loadAnimationsOf(AnimationSet, loaded)
  \/ HumanCharacter_update
  \/ HumanCharacter_updateMovementState
  \/ HumanCharacter_handleMovement
  \/ HumanCharacter_handleJump
  \/ HumanCharacter_checkCollisions
  \/ Game_handleCameraMovement
  \/ Game_render

\* The steps of a frame of such a game.  Game.animate begins with
\* requestAnimationFrame(this.animate), so a frame is always followed by the
\* next one, and within a frame the steps are one call after the other.
HumanFrameStep ==
  \/ \E deltaTime \in DeltaTimes : animate(deltaTime)
  \/ HumanCharacter_update
  \/ HumanCharacter_updateMovementState
  \/ HumanCharacter_handleMovement
  \/ HumanCharacter_handleJump
  \/ HumanCharacter_checkCollisions
  \/ Game_handleCameraMovement
  \/ Game_render

\* A game whose player only turns the camera: the buttons, the pointer lock
\* and mouse moves, between the frames of a standing HumanCharacter
MouseButtons == {0, 2}

InitCamera ==
  /\ keys = InitialKeys
  /\ keysDown = {}
  /\ character = NewHumanCharacter
  /\ frame = BetweenFrames
  /\ mouse = NewMouse
  /\ camera = NewCamera

NextCamera ==
  \/ \E button \in MouseButtons, isButtonDown \in BOOLEAN :
       handleMouseButtonEvent(button, isButtonDown)
  \/ \E movement \in MouseMovements : onMouseMove(movement)
  \/ \E locked \in BOOLEAN : onPointerLockChange(locked)
  \/ \E deltaTime \in DeltaTimes : animate(deltaTime)
  \/ HumanCharacter_update
  \/ HumanCharacter_updateMovementState
  \/ HumanCharacter_handleMovement
  \/ HumanCharacter_handleJump
  \/ HumanCharacter_checkCollisions
  \/ Game_handleCameraMovement
  \/ Game_render

\* The zoom law on its own: the wheel, from any whole zoom distance between
\* minZoomDistance and maxZoomDistance, with the height that belongs to it
ZoomDistances ==
  {d * DistanceScale :
     d \in (minZoomDistance \div DistanceScale)..(maxZoomDistance \div DistanceScale)}

InitZoom ==
  /\ keys = InitialKeys
  /\ keysDown = {}
  /\ character = NewHumanCharacter
  /\ frame = BetweenFrames
  /\ mouse = NewMouse
  /\ \E d \in ZoomDistances :
       camera = [NewCamera EXCEPT !.cameraOffsetZ = d,
                                  !.cameraOffsetY = ZoomedHeight(d),
                                  !.targetCameraOffsetZ = d,
                                  !.targetCameraOffsetY = ZoomedHeight(d)]

NextZoom ==
  \/ \E sign \in {-1, 1} : onMouseWheel(sign)
  \/ \E deltaTime \in DeltaTimes : animate(deltaTime)
  \/ HumanCharacter_update
  \/ HumanCharacter_updateMovementState
  \/ HumanCharacter_handleMovement
  \/ HumanCharacter_handleJump
  \/ HumanCharacter_checkCollisions
  \/ Game_handleCameraMovement
  \/ Game_render

\* The clock deltas of the frame-time runs, in tenths of a second: a clock
\* that went back, a frame of no length and a slow frame
FrameTimes == {-3, 0, 5}

\* The character stands on the floor with no key held
AtRest ==
  /\ ~isAnyMovementKeyPressed(keys)
  /\ character.isOnGround
  /\ character.currentSpeed = 0

\* Game.animate when the character is at rest
animateFromRest(deltaTime) ==
  /\ AtRest
  /\ animate(deltaTime)

\* Frames of a jumping HumanCharacter under those clock deltas; a negative
\* delta is followed from rest only, where the speeds it produces stay bounded
NextFrameTime ==
  \/ \E isKeyDown \in BOOLEAN : handleKeyEvent("Space", isKeyDown)
  \/ \E deltaTime \in {t \in FrameTimes : t >= 0} : animate(deltaTime)
  \/ \E deltaTime \in {t \in FrameTimes : t < 0} : animateFromRest(deltaTime)
  \/ HumanCharacter_update
  \/ HumanCharacter_updateMovementState
  \/ HumanCharacter_handleMovement
  \/ HumanCharacter_handleJump
  \/ HumanCharacter_checkCollisions
  \/ Game_handleCameraMovement
  \/ Game_render

\* The camera has reached its targets
CameraSettled ==
  /\ camera.cameraRotation = camera.targetCameraRotation
  /\ camera.cameraPitch = camera.targetCameraPitch
  /\ camera.cameraOffsetY = camera.targetCameraOffsetY
  /\ camera.cameraOffsetZ = camera.targetCameraOffsetZ

\* The mouse events that arrive while the camera is at rest
onMouseMoveAtRest(movement) ==
  /\ CameraSettled
  /\ onMouseMove(movement)

onMouseWheelAtRest(sign) ==
  /\ CameraSettled
  /\ onMouseWheel(sign)

\* Mouse moves and the wheel together, each event arriving once the camera
\* has settled from the ones before
NextMouse ==
  \/ \E isButtonDown \in BOOLEAN : handleMouseButtonEvent(2, isButtonDown)
  \/ \E movement \in MouseMovements : onMouseMoveAtRest(movement)
  \/ \E sign \in {-1, 1} : onMouseWheelAtRest(sign)
  \/ \E locked \in BOOLEAN : onPointerLockChange(locked)
  \/ \E deltaTime \in DeltaTimes : animate(deltaTime)
  \/ HumanCharacter_update
  \/ HumanCharacter_updateMovementState
  \/ HumanCharacter_handleMovement
  \/ HumanCharacter_handleJump
  \/ HumanCharacter_checkCollisions
  \/ Game_handleCameraMovement
  \/ Game_render

\* The pitch law on its own: vertical mouse moves with the camera at rest,
\* pitched to within one move of either limit, or level
PitchStarts == {minCameraPitch + 50, 0, maxCameraPitch - 50}

PitchMovements == {<<0, 5>>, <<0, -5>>}

InitPitch ==
  /\ keys = InitialKeys
  /\ keysDown = {}
  /\ character = NewHumanCharacter
  /\ frame = BetweenFrames
  /\ mouse = NewMouse
  /\ \E pitch \in PitchStarts :
       camera = [NewCamera EXCEPT !.targetCameraPitch = pitch,
                                  !.cameraPitch = pitch]

NextPitch ==
  \/ \E isButtonDown \in BOOLEAN : handleMouseButtonEvent(2, isButtonDown)
  \/ \E movement \in PitchMovements : onMouseMove(movement)
  \/ \E locked \in BOOLEAN : onPointerLockChange(locked)
  \/ \E deltaTime \in DeltaTimes : animate(deltaTime)
  \/ HumanCharacter_update
  \/ HumanCharacter_updateMovementState
  \/ HumanCharacter_handleMovement
  \/ HumanCharacter_handleJump
  \/ HumanCharacter_checkCollisions
  \/ Game_handleCameraMovement
  \/ Game_render

-----------------------------------------------------------------------------
(* Speed smoothing: handleMovement frame after frame at a fixed targetSpeed. *)
(* Speeds are counted in a unit fine enough for MaxHalvings halvings, and a  *)
(* step is taken only where the interpolated speed is a whole number of      *)
(* units, so that the arithmetic is that of the code.                        *)

MaxHalvings == 3

SpeedScale == Power(2, MaxHalvings)

\* The frame times of the smoothing runs: 0.1 s, 0.2 s and 0.5 s
SmoothingDeltaTimes == {1, 2, 5}

\* The speeds updateMovementState assigns to targetSpeed
TargetSpeeds(c) ==
  IF c.class = "HumanCharacter"
    THEN {0, c.walkSpeed, c.moveSpeed, c.runSpeed}
    ELSE {0, c.walkSpeed \div 2, c.walkSpeed, c.moveSpeed, c.runSpeed}

\* The deltaTime handleMovement is called with in a frame of deltaTime
HandleMovementDeltaTime(c, deltaTime) ==
  IF c.class = "HumanCharacter" THEN cappedDeltaTime(deltaTime) ELSE deltaTime

\* The interpolation of handleMovement yields a whole number of units
LerpIsExact(c, deltaTime) ==
  LET t == Min(10, c.speedChangeRate * deltaTime)
  IN ((10 - t) * c.currentSpeed + t * c.targetSpeed) % 10 = 0

InitSmoothing ==
  /\ keys = InitialKeys
  /\ keysDown = {}
  /\ frame = [pc |-> "handleMovement", deltaTime |-> 0, order |-> <<>>]
  /\ \E c \in {NewHumanCharacter, NewCharacter} :
       \E current \in TargetSpeeds(c), target \in TargetSpeeds(c) :
         character = [c EXCEPT !.currentSpeed = current * SpeedScale,
                               !.targetSpeed = target * SpeedScale]

\* One more frame's handleMovement, nothing else of the frame touching the
\* speeds
handleMovementAtFixedTarget(deltaTime) ==
  /\ frame.pc = "handleMovement"
  /\ LerpIsExact(character, HandleMovementDeltaTime(character, deltaTime))
  /\ character' = HandleMovement(character, keys,
                     HandleMovementDeltaTime(character, deltaTime))
  /\ frame' = [frame EXCEPT
                 !.deltaTime = HandleMovementDeltaTime(character, deltaTime)]
  /\ UNCHANGED keys
  /\ UNCHANGED notMovementVars

NextSmoothing ==
  \E deltaTime \in SmoothingDeltaTimes : handleMovementAtFixedTarget(deltaTime)

-----------------------------------------------------------------------------
(* The heading of the character.  Angles are in fortieths of pi, so that     *)
(* the eighth turns of the key directions and a tenth of them are whole      *)
(* numbers.                                                                  *)

PI == 40

MaxEighthTurns == 6

\* The camera yaws handed to setRotationFromCamera: eighth turns up to
\* MaxEighthTurns either way
CameraAngles == {(PI \div 4) * i : i \in -MaxEighthTurns..MaxEighthTurns}

\* The % of JavaScript: the remainder has the sign of the dividend
JsRemainder(x, m) == IF x >= 0 THEN x % m ELSE -((-x) % m)

\* const diff = ((b - a + Math.PI) % (Math.PI * 2)) - Math.PI
lerpAngleDiff(a, b) == JsRemainder(b - a + PI, 2 * PI) - PI

\* Character.lerpAngle(a, b, t), t in tenths
lerpAngle(a, b, t) == a + (lerpAngleDiff(a, b) * Min(10, t)) \div 10

\* let angle = x % (Math.PI * 2); if (angle < 0) angle += Math.PI * 2
NormalizeAngle(x) ==
  IF JsRemainder(x, 2 * PI) < 0 THEN JsRemainder(x, 2 * PI) + 2 * PI
  ELSE JsRemainder(x, 2 * PI)

\* angleDiff of HumanCharacter.updateCharacterRotation
angleDiff(currentAngle, targetAngle) ==
  LET d == targetAngle - currentAngle
      e == IF d > PI THEN d - 2 * PI ELSE d
  IN IF e < -PI THEN e + 2 * PI ELSE e

\* Math.atan2(y, x) for components in {-1, 0, 1}
Atan2(y, x) ==
  IF y = 0 THEN (IF x < 0 THEN PI ELSE 0)
  ELSE IF y > 0 THEN (IF x > 0 THEN PI \div 4 ELSE IF x = 0 THEN PI \div 2
                      ELSE 3 * (PI \div 4))
  ELSE (IF x > 0 THEN -(PI \div 4) ELSE IF x = 0 THEN -(PI \div 2)
        ELSE -3 * (PI \div 4))

\* Math.cos and Math.sin of a whole number of quarter turns
Cos(angle) == <<1, 0, -1, 0>>[((angle \div (PI \div 2)) % 4) + 1]

Sin(angle) == <<0, 1, 0, -1>>[((angle \div (PI \div 2)) % 4) + 1]

IsQuarterTurn(angle) == angle % (PI \div 2) = 0

\* makeRotationY with the sine negated: the turn the other way round
makeRotationYClockwise(angle, v) ==
  <<Cos(angle) * v[1] - Sin(angle) * v[2],
    Cos(angle) * v[2] + Sin(angle) * v[1]>>

\* new THREE.Matrix4().makeRotationY(angle) applied to <<x, z>>
makeRotationY(angle, v) ==
  <<Cos(angle) * v[1] + Sin(angle) * v[2],
    Cos(angle) * v[2] - Sin(angle) * v[1]>>

\* movementDirection as handleMovement sets it from the keys, <<x, z>>; a
\* later test overrides an earlier one.  normalize() keeps the direction:
\* the components are in units of the vector's greatest component.
InputDirection(k) ==
  <<IF k.right THEN 1 ELSE IF k.left THEN -1 ELSE 0,
    IF k.backward THEN 1 ELSE IF k.forward THEN -1 ELSE 0>>

\* The heading fields of a new character of either class; handled is the
\* parity of the handleMovement calls made.  normalized tells whether the
\* last handleMovement called normalize(); the components of
\* movementDirection and of velocity (velocity.x, velocity.z) are in units
\* of 1 / sqrt(divisor), divisor being the squared length normalize()
\* divided by, or 1.
NewFacing(class) ==
  [class |-> class,
   rotationSpeed |-> IF class = "HumanCharacter" THEN 5 ELSE 10,
   rotationY |-> 0, cameraRotation |-> PI, isMoving |-> FALSE,
   movementDirection |-> <<0, 0>>, turned |-> FALSE, delta |-> 0,
   handled |-> 0,
   normalized |-> FALSE, divisor |-> 1, velocity |-> <<0, 0>>]

\* setRotationFromCamera: Character turns towards the camera while it
\* stands; HumanCharacter calls updateCharacterRotation(false), which does
\* nothing.  delta is the signed turn the interpolation took, once turned.
SetRotationFromCamera(f, cameraHorizontalRotation) ==
  IF f.class = "Character" /\ ~f.isMoving
    THEN [f EXCEPT !.cameraRotation = cameraHorizontalRotation,
                   !.rotationY = lerpAngle(f.rotationY,
                                   cameraHorizontalRotation, f.rotationSpeed),
                   !.turned = TRUE,
                   !.delta = lerpAngleDiff(f.rotationY,
                                           cameraHorizontalRotation)]
    ELSE [f EXCEPT !.cameraRotation = cameraHorizontalRotation]

\* HumanCharacter.updateCharacterRotation(true)
UpdateCharacterRotation(f) ==
  LET direction == makeRotationY(f.cameraRotation, f.movementDirection)
      targetRotation == Atan2(-direction[1], -direction[2])
      currentAngle == NormalizeAngle(f.rotationY)
      diff == angleDiff(currentAngle, NormalizeAngle(targetRotation))
  IN [f EXCEPT !.movementDirection = direction,
               !.rotationY = currentAngle + (diff * f.rotationSpeed * 2) \div 100,
               !.turned = TRUE,
               !.delta = diff]

\* Character.transformMovementByCamera
TransformMovementByCamera(f) ==
  LET direction == makeRotationY(f.cameraRotation, f.movementDirection)
  IN [f EXCEPT !.movementDirection = direction,
               !.rotationY = Atan2(direction[1], -direction[2])]

\* The heading part of handleMovement
HandleMovementDirection(f, k) ==
  LET g == [f EXCEPT !.isMoving = DirectionHeld(k),
                     !.movementDirection = InputDirection(k),
                     !.handled = 1 - @]
  IN IF ~g.isMoving THEN g
     ELSE IF g.class = "HumanCharacter" THEN UpdateCharacterRotation(g)
     ELSE TransformMovementByCamera(g)

\* Vector3.lengthSq of <<x, z>>
LengthSq(v) == v[1] * v[1] + v[2] * v[2]

hasValidMovementDirection(v) == LengthSq(v) > 0

\* Mutant of HandleMovementVelocity: the direction is not normalised
HandleMovementVelocityUnnormalized(f, k, currentSpeed) ==
  LET g == HandleMovementDirection(f, k)
  IN [g EXCEPT !.normalized = FALSE,
               !.divisor = 1,
               !.velocity = IF g.isMoving
                              THEN <<g.movementDirection[1] * currentSpeed,
                                     g.movementDirection[2] * currentSpeed>>
                              ELSE <<0, 0>>]

\* HumanCharacter.handleMovement after the speed smoothing: velocity.x and
\* velocity.z are reset, the direction is set from the keys, normalised when
\* it is not zero, turned by the camera yaw and multiplied by currentSpeed
HandleMovementVelocity(f, k, currentSpeed) ==
  LET raw == InputDirection(k)
      normalized == DirectionHeld(k) /\ hasValidMovementDirection(raw)
      g == HandleMovementDirection(f, k)
  IN [g EXCEPT !.normalized = normalized,
               !.divisor = IF normalized THEN LengthSq(raw) ELSE 1,
               !.velocity = IF g.isMoving
                              THEN <<g.movementDirection[1] * currentSpeed,
                                     g.movementDirection[2] * currentSpeed>>
                              ELSE <<0, 0>>]

\* The turn of the step is a whole number of angle units
TurnIsExact(f, k) ==
  LET g == UpdateCharacterRotation(
             [f EXCEPT !.movementDirection = InputDirection(k)])
  IN f.class = "HumanCharacter" /\ DirectionHeld(k)
       => (g.delta * f.rotationSpeed * 2) % 100 = 0

\* No character is followed
IdleFacing == facing = NewFacing("HumanCharacter")

DirectionKeyCodes == {"KeyW", "KeyS", "KeyA", "KeyD"}

InitFacing ==
  /\ keys = InitialKeys
  /\ keysDown = {}
  /\ character = NewHumanCharacter
  /\ frame = BetweenFrames
  /\ facing \in {NewFacing("HumanCharacter"), NewFacing("Character")}

\* mesh.rotation.y is followed while it is within a turn of zero
RotationInRange(f) ==
  /\ -2 * PI <= f.rotationY
  /\ f.rotationY <= 2 * PI

\* Game.handleCameraMovement hands the camera yaw to the character
setRotationFromCamera(cameraHorizontalRotation) ==
  /\ RotationInRange(SetRotationFromCamera(facing, cameraHorizontalRotation))
  /\ facing' = SetRotationFromCamera(facing, cameraHorizontalRotation)
  /\ UNCHANGED keys
  /\ UNCHANGED notFacingVars

\* The heading part of a frame's handleMovement, for a camera yaw of a whole
\* number of quarter turns
handleMovementDirection ==
  /\ IsQuarterTurn(facing.cameraRotation)
  /\ TurnIsExact(facing, keys)
  /\ facing' = HandleMovementDirection(facing, keys)
  /\ UNCHANGED keys
  /\ UNCHANGED notFacingVars

\* handleMovement of a frame, whole, for a camera yaw of a whole number of
\* quarter turns
HumanCharacter_handleMovementVelocity ==
  /\ At("HumanCharacter", "handleMovement")
  /\ IsQuarterTurn(facing.cameraRotation)
  /\ TurnIsExact(facing, keys)
  /\ character' = HandleMovement(character, keys, frame.deltaTime)
  /\ facing' = HandleMovementVelocity(facing, keys, character'.currentSpeed)
  /\ Goto("handleJump")
  /\ UNCHANGED keys
  /\ UNCHANGED <<loaderVars, retargetVars, cameraVars, keyboardVars>>

\* The keys of a game in which the player walks and runs in every direction
VelocityKeyCodes == DirectionKeyCodes \cup {"ShiftLeft"}

\* The camera yaws of such a game: whole numbers of quarter turns
QuarterTurnAngles == {angle \in CameraAngles : IsQuarterTurn(angle)}

NextVelocity ==
  \/ \E code \in VelocityKeyCodes, isKeyDown \in BOOLEAN :
       handleKeyEvent(code, isKeyDown)
  \/ \E cameraHorizontalRotation \in QuarterTurnAngles :
       setRotationFromCamera(cameraHorizontalRotation)
  \/ \E deltaTime \in DeltaTimes : animate(deltaTime)
  \/ HumanCharacter_update
  \/ HumanCharacter_updateMovementState
  \/ HumanCharacter_handleMovementVelocity
  \/ HumanCharacter_handleJump
  \/ HumanCharacter_checkCollisions
  \/ Game_handleCameraMovement
  \/ Game_render

NextFacing ==
  \/ \E code \in DirectionKeyCodes, isKeyDown \in BOOLEAN :
       handleKeyEvent(code, isKeyDown)
  \/ \E cameraHorizontalRotation \in CameraAngles :
       setRotationFromCamera(cameraHorizontalRotation)
  \/ handleMovementDirection

-----------------------------------------------------------------------------
(* Specifications *)

Init ==
  InitLoader /\ IdleRetarget /\ IdleMovement /\ IdleCamera /\ IdleFacing

Next == NextLoader

Spec == Init /\ [][Next]_vars

InitRetargetSpec ==
  InitLoader /\ InitRetarget /\ IdleMovement /\ IdleCamera /\ IdleFacing

SpecRetarget == InitRetargetSpec /\ [][NextRetarget]_vars

InitMovementSpec ==
  InitLoader /\ IdleRetarget /\ InitMovement /\ IdleCamera /\ IdleFacing

SpecMovement == InitMovementSpec /\ [][NextMovement]_vars

InitAnimationSpec ==
  InitLoader /\ IdleRetarget /\ InitAnimation /\ IdleCamera /\ IdleFacing

SpecAnimation == InitAnimationSpec /\ [][NextAnimation]_vars

InitLoadingSpec ==
  InitLoader /\ IdleRetarget /\ InitAnimation /\ IdleCamera /\ IdleFacing

SpecLoading == InitLoadingSpec /\ [][NextLoading]_vars

InitAssetsSpec ==
  InitAssets /\ IdleRetarget /\ InitAnimation /\ IdleCamera /\ IdleFacing

SpecAssets == InitAssetsSpec /\ [][NextAssets]_vars

InitVelocitySpec ==
  InitLoader /\ IdleRetarget /\ IdleMovement /\ IdleCamera /\ IdleFacing

SpecVelocity == InitVelocitySpec /\ [][NextVelocity]_vars

InitKeyboardSpec ==
  InitLoader /\ IdleRetarget /\ IdleMovement /\ IdleCamera /\ IdleFacing

SpecKeyboard == InitKeyboardSpec /\ [][NextKeyboard]_vars

\* SpecLoading with the frames going on for ever
InitLoadingFairSpec ==
  InitLoader /\ IdleRetarget /\ InitAnimation /\ IdleCamera /\ IdleFacing

SpecLoadingFair ==
  InitLoadingFairSpec /\ [][NextLoading]_vars /\ WF_vars(HumanFrameStep)

InitSmoothingSpec ==
  InitLoader /\ IdleRetarget /\ InitSmoothing /\ IdleCamera /\ IdleFacing

SpecSmoothing == InitSmoothingSpec /\ [][NextSmoothing]_vars

InitFacingSpec ==
  InitLoader /\ IdleRetarget /\ InitFacing /\ IdleCamera

SpecFacing == InitFacingSpec /\ [][NextFacing]_vars

InitCameraSpec == InitLoader /\ IdleRetarget /\ InitCamera /\ IdleFacing

SpecCamera == InitCameraSpec /\ [][NextCamera]_vars

InitZoomSpec == InitLoader /\ IdleRetarget /\ InitZoom /\ IdleFacing

SpecZoom == InitZoomSpec /\ [][NextZoom]_vars

InitFrameTimeSpec ==
  InitLoader /\ IdleRetarget /\ InitAnimation /\ IdleCamera /\ IdleFacing

SpecFrameTime == InitFrameTimeSpec /\ [][NextFrameTime]_vars

InitMouseSpec == InitLoader /\ IdleRetarget /\ InitCamera /\ IdleFacing

SpecMouse == InitMouseSpec /\ [][NextMouse]_vars

InitMeshesSpec ==
  InitMeshes /\ IdleRetarget /\ IdleMovement /\ IdleCamera /\ IdleFacing

SpecMeshes == InitMeshesSpec /\ [][NextMeshes]_vars

InitPitchSpec == InitLoader /\ IdleRetarget /\ InitPitch /\ IdleFacing

SpecPitch == InitPitchSpec /\ [][NextPitch]_vars

-----------------------------------------------------------------------------
(* Claims about the loader *)

\* The step is a loadModelById(id) invocation; NewCall is its record.
IsLoadCall(id) ==
  /\ Len(calls') = Len(calls) + 1
  /\ calls'[Len(calls')].id = id

NewCall == calls'[Len(calls')]

Registered(id) == modelRegistry[id] # Absent

\* C1 (as claimed): a loadModelById call for a registered, enabled, not yet
\* cached id made while an earlier call for the same id is still awaiting its
\* decode starts no second decode: it shares the decode of the earlier call,
\* and once both have returned they hold the same LoadedModel.
C1_ConcurrentLoadsCoalesce ==
  \A j \in DOMAIN calls : \A i \in calls[j].pendingAtCall :
    calls[j].path = "decode" =>
      /\ calls[j].decode = calls[i].decode
      /\ (calls[i].state = "returned" /\ calls[j].state = "returned"
            => calls[i].ret = calls[j].ret)

\* C2: once a load of id has resolved, and with no setExcludedMeshes(id) since
\* and id enabled, a loadModelById(id) call starts no decode and returns at
\* once the very LoadedModel held in the cache.
C2_LoadedModelIsReused ==
  [][\A id \in ModelIds :
       (IsLoadCall(id) /\ completedSince[id] /\ Registered(id)
          /\ modelRegistry[id].enabled)
       => /\ decodes' = decodes
          /\ loadedModels[id] # Absent
          /\ NewCall.state = "returned"
          /\ NewCall.ret = loadedModels[id]
          /\ loadedModels' = loadedModels]_vars

\* C2 witness: a call answered from the cache with the LoadedModel that an
\* earlier, resolved call of the same id had decoded.
C2_Witness ==
  \E i, j \in DOMAIN calls :
    /\ i < j
    /\ calls[i].id = calls[j].id
    /\ calls[i].path = "decode" /\ calls[i].state = "returned"
    /\ calls[j].path = "cached" /\ calls[j].ret = calls[i].ret

\* C3: loadModelById of a registered id whose asset has enabled = false
\* returns the disabled outcome (null, with the "is disabled" warning), starts
\* no decode and leaves the cache as it was, also when the id is cached.
C3_DisabledLoadsNothing ==
  [][\A id \in ModelIds :
       (IsLoadCall(id) /\ Registered(id) /\ ~modelRegistry[id].enabled)
       => /\ NewCall.state = "returned"
          /\ NewCall.ret = Null
          /\ NewCall.warn = "is disabled"
          /\ NewCall.decode = 0
          /\ decodes' = decodes
          /\ loadedModels' = loadedModels]_vars

\* C3 witness: a disabled id that was loaded and cached before has been asked for.
C3_Witness ==
  \E j \in DOMAIN calls :
    /\ calls[j].path = "disabled"
    /\ calls[j].cachedAtCall
    /\ loadedModels[calls[j].id] # Absent

C5_SetExcludedEvicts ==
  \A id \in ModelIds, names \in ExcludeLists :
    (Registered(id) /\ loadedModels[id] # Absent) =>
      LET registry1 == RegistryAfterSetExcluded(modelRegistry, id, names)
          cache1 == CacheAfterSetExcluded(modelRegistry, loadedModels, id)
          start == LoadModelByIdStart(registry1, cache1, id)
      IN /\ cache1[id] = Absent
         /\ \A other \in ModelIds \ {id} : cache1[other] = loadedModels[other]
         /\ registry1[id].enabled =>
              /\ start.path = "decode"
              /\ start.excludeMeshes = names

\* C5 witness: a cached id was decoded again, with another exclusion list,
\* after setExcludedMeshes had evicted it, while another id stayed cached.
C5_Witness ==
  \E i, j \in DOMAIN calls :
    /\ i < j
    /\ calls[i].id = calls[j].id
    /\ calls[i].path = "decode" /\ calls[i].state = "returned"
    /\ calls[j].path = "decode" /\ ~calls[j].cachedAtCall
    /\ calls[j].excludeMeshes # calls[i].excludeMeshes
    /\ calls[j].excludeMeshes \in ExcludeLists

\* An excluded name is part of the node's name, or is the node's name but
\* for the case of its letters
NameIsExcluded(name) ==
  /\ scene.excluding
  /\ \E excluded \in scene.excludeMeshes :
       \/ \E before \in 0..Len(name), after \in 0..Len(name) :
            /\ before <= after
            /\ excluded = [i \in 1..(after - before) |-> name[before + i]]
       \/ /\ Len(excluded) = Len(name)
          /\ \A i \in DOMAIN name :
               \/ excluded[i] = name[i]
               \/ {excluded[i], name[i]} = {"a", "A"}

\* C33: processMeshes leaves every node in the scene; a mesh is invisible
\* exactly when its name is excluded, and has castShadow and receiveShadow
\* exactly when it is not; nodes that are not meshes are as decoded.
C33_ExcludedMeshesAreHidden ==
  scene.processed =>
    /\ Len(scene.nodes) = Len(scene.decoded)
    /\ \A i \in DOMAIN scene.decoded :
         LET child == scene.nodes[i]
         IN /\ child.name = scene.decoded[i].name
            /\ child.kind = scene.decoded[i].kind
            /\ IF child.kind = "Mesh"
                 THEN /\ ~child.visible <=> NameIsExcluded(child.name)
                      /\ child.castShadow <=> ~NameIsExcluded(child.name)
                      /\ child.receiveShadow <=> ~NameIsExcluded(child.name)
                 ELSE child = scene.decoded[i]

\* The mesh "A" is hidden by the excluded name "a", which is not part of its
\* name, and the mesh "Ab", which no excluded name matches, has its shadows
C33_Witness ==
  /\ scene.processed
  /\ scene.excluding
  /\ scene.excludeMeshes = {<<"a">>}
  /\ Len(scene.nodes) = 2
  /\ scene.nodes[1].kind = "Mesh"
  /\ scene.nodes[1].name = <<"A">>
  /\ ~scene.nodes[1].visible
  /\ ~scene.nodes[1].castShadow
  /\ scene.nodes[2].kind = "Mesh"
  /\ scene.nodes[2].name = <<"A", "b">>
  /\ scene.nodes[2].visible
  /\ scene.nodes[2].castShadow
  /\ scene.nodes[2].receiveShadow

-----------------------------------------------------------------------------
(* Claims about the retargeting pass *)

Components(track) == Split(track.name)

HasProperty(track) == Len(Components(track)) >= 2

\* A translation track of a root bone: "<root bone>.position"
IsRootTranslation(track) ==
  /\ HasProperty(track)
  /\ Includes(rootBoneNames, Components(track)[1])
  /\ "position" \in {Components(track)[2][k] : k \in DOMAIN Components(track)[2]}

IsRootRotation(track) ==
  /\ HasProperty(track)
  /\ Includes(rootBoneNames, Components(track)[1])
  /\ Components(track)[2] = <<"quaternion">>

HasMapping(track) == Components(track)[1] \in DOMAIN generateBoneMapping

\* The name a mapped track is to carry: (boneMapping[boneName], property)
MappedName(track) ==
  generateBoneMapping[Components(track)[1]] \o Dot
    \o TemplateString(PropertyOf(track.name))

SameSamples(t1, t2) == t1.times = t2.times /\ t1.values = t2.values

TracksOf(c) == {c.tracks[k] : k \in DOMAIN c.tracks}

DroppedCount(c) ==
  Cardinality({k \in DOMAIN c.tracks : IsRootTranslation(c.tracks[k])})

\* C6: the clip returned by remapAnimationTracks holds no translation track
\* of a root bone, mapped or not, and for every rotation track of a root bone
\* in the source it holds that track, under the mapped name if the bone is
\* mapped and under its own name otherwise.
C6_RootTranslationDropped ==
  IsClip(remapped) =>
    /\ \A t \in TracksOf(remapped) : ~IsRootTranslation(t)
    /\ \A t \in TracksOf(clip) :
         IsRootRotation(t) =>
           \E u \in TracksOf(remapped) :
             /\ u.name = IF HasMapping(t) THEN MappedName(t) ELSE t.name
             /\ SameSamples(u, t)

\* C6 witness: a clip with the translation and the rotation track of the
\* mapped root bone was retargeted, and only the rotation track is left.
C6_Witness ==
  /\ IsClip(remapped)
  /\ Len(clip.tracks) = 2
  /\ clip.tracks[1].name = <<"mixamorig", "Hips", ".", "position">>
  /\ clip.tracks[2].name = <<"mixamorig", "Hips", ".", "quaternion">>
  /\ Len(remapped.tracks) = 1
  /\ remapped.tracks[1].name = <<"Hips", ".", "quaternion">>

ClipShapeKept ==
  /\ remapped.name = clip.name
  /\ remapped.duration = clip.duration
  /\ Len(remapped.tracks) = Len(clip.tracks) - DroppedCount(clip)

RingAndPinky(k1, k2) ==
  \E i \in DOMAIN sides, d \in {"1", "2", "3"} :
    {k1, k2} = {<<"mixamorig">> \o sides[i] \o <<"Hand", "Ring", d>>,
                <<"mixamorig">> \o sides[i] \o <<"Hand", "Pinky", d>>}

\* C34: in the table generateBoneMapping returns to remapAnimationTracks a
\* source bone with Left in
\* its name has a target that begins with Left, and likewise for Right; each
\* centre bone has the target of its own name; two sources share a target
\* only as the ring and the pinky bone of one side and joint; and the table
\* is the boneMapping literal of the earlier loader.
C34_BoneMappingKeepsSides ==
  remapped # NotRun =>
    /\ \A source \in DOMAIN generateBoneMapping :
         /\ Includes(source, "Left")
              => Head(generateBoneMapping[source]) = "Left"
         /\ Includes(source, "Right")
              => Head(generateBoneMapping[source]) = "Right"
    /\ \A i \in DOMAIN centralBones :
         /\ <<"mixamorig">> \o centralBones[i] \in DOMAIN generateBoneMapping
         /\ generateBoneMapping[<<"mixamorig">> \o centralBones[i]]
              = centralBones[i]
    /\ \A k1 \in DOMAIN generateBoneMapping,
          k2 \in DOMAIN generateBoneMapping :
         (k1 # k2 /\ generateBoneMapping[k1] = generateBoneMapping[k2])
           => RingAndPinky(k1, k2)
    /\ DOMAIN generateBoneMapping = DOMAIN earlierBoneMapping
    /\ \A source \in DOMAIN earlierBoneMapping :
         generateBoneMapping[source] = earlierBoneMapping[source]

\* A clip whose one track is of the left ring bone was retargeted to the left
\* pinky bone
C34_Witness ==
  /\ IsClip(remapped)
  /\ Len(clip.tracks) = 1
  /\ clip.tracks[1].name
       = <<"mixamorig", "Left", "Hand", "Ring", "1", ".", "quaternion">>
  /\ Len(remapped.tracks) = 1
  /\ remapped.tracks[1].name = <<"Left", "Hand", "Pinky", "1", ".", "quaternion">>

\* An unrecognised property suffix
Unrecognised(track) ==
  HasProperty(track) /\ Components(track)[2] = <<"morph">>

\* C9 (as claimed): remapAnimationTracks always returns a clip, and every
\* source track whose name has no "." or whose property is unrecognised is in
\* the returned clip unchanged, whatever its bone.
C9_MalformedTrackPassesThrough ==
  remapped # NotRun =>
    /\ IsClip(remapped)
    /\ \A t \in TracksOf(clip) :
         (~HasProperty(t) \/ Unrecognised(t)) => t \in TracksOf(remapped)

-----------------------------------------------------------------------------
(* Claims about the movement state *)

\* updateMovementState is about to run for a grounded character with none of
\* forward, backward, left, right held
GroundedWithoutDirection ==
  /\ frame.pc = "updateMovementState"
  /\ character.isOnGround
  /\ ~DirectionHeld(keys)

\* C10 (as claimed): whenever updateMovementState runs for a grounded
\* character with no direction key held, whatever jump, crouch, run and walk
\* are, it leaves the movement state idle and targetSpeed 0.
C10_NoDirectionGroundedIsIdle ==
  [][GroundedWithoutDirection =>
       /\ character'.movementState = "idle"
       /\ character'.targetSpeed = 0]_vars

\* The state and targetSpeed that the first matching rule of the priority
\* order gives: idle, jump, crouch, run, walk, normal, else what they were
FirstMatchingRule(c, k) ==
  IF ~DirectionHeld(k) /\ c.isOnGround
    THEN [movementState |-> "idle", targetSpeed |-> 0]
  ELSE IF k.jump /\ ~c.isOnGround
    THEN [movementState |-> "jump", targetSpeed |-> c.targetSpeed]
  ELSE IF k.crouch
    THEN [movementState |-> "crouch", targetSpeed |-> c.walkSpeed \div 2]
  ELSE IF k.run /\ DirectionHeld(k)
    THEN [movementState |-> "run", targetSpeed |-> c.runSpeed]
  ELSE IF k.walk /\ DirectionHeld(k)
    THEN [movementState |-> "walk", targetSpeed |-> c.walkSpeed]
  ELSE IF DirectionHeld(k)
    THEN [movementState |-> "normal", targetSpeed |-> c.moveSpeed]
  ELSE [movementState |-> c.movementState, targetSpeed |-> c.targetSpeed]

\* C11 (as claimed): every updateMovementState step, whatever keys are held
\* and whether the character is grounded or not, leaves the movement state
\* and targetSpeed that the first matching rule of the priority order gives.
C11_FirstMatchingRuleWins ==
  [][frame.pc = "updateMovementState" =>
       /\ character'.movementState
            = FirstMatchingRule(character, keys).movementState
       /\ character'.targetSpeed
            = FirstMatchingRule(character, keys).targetSpeed]_vars

JumpStates == {"jump", "jumpRun"}

\* C12 (as claimed): a step that leaves a character airborne that was
\* airborne in a jump state keeps that state, whatever keys are held and
\* whatever clip has finished; and a step that enters a jump state leaves
\* targetSpeed as it was.
C12_JumpPersistsUntilGrounded ==
  [][/\ (/\ character.movementState \in JumpStates
         /\ ~character.isOnGround
         /\ ~character'.isOnGround)
        => character'.movementState = character.movementState
     /\ (/\ character.movementState \notin JumpStates
         /\ character'.movementState \in JumpStates)
        => character'.targetSpeed = character.targetSpeed]_vars

-----------------------------------------------------------------------------
(* Claims about the speed smoothing *)

Distance(a, b) == IF a >= b THEN a - b ELSE b - a

\* C13: a handleMovement step at a fixed targetSpeed leaves currentSpeed no
\* farther from targetSpeed than it was and on the same side of it, and
\* leaves it equal to targetSpeed when speedChangeRate * deltaTime >= 1.
C13_SpeedConvergesWithoutOvershoot ==
  [][(frame.pc = "handleMovement" /\ frame'.pc = "handleMovement") =>
       LET target == character.targetSpeed
           before == character.currentSpeed
           after == character'.currentSpeed
       IN /\ character'.targetSpeed = target
          /\ Distance(target, after) <= Distance(target, before)
          /\ before <= target => after <= target
          /\ before >= target => after >= target
          /\ character.speedChangeRate * frame'.deltaTime >= 10
               => after = target]_vars

\* C13 witness: after a step that was not a full one currentSpeed has moved
\* but is still short of targetSpeed.
C13_Witness ==
  /\ frame.pc = "handleMovement"
  /\ frame.deltaTime > 0
  /\ character.speedChangeRate * frame.deltaTime < 10
  /\ character.currentSpeed # character.targetSpeed
  /\ character.currentSpeed % SpeedScale # 0

-----------------------------------------------------------------------------
(* Claims about the heading *)

\* C14: the signed turn an angle interpolation takes, in lerpAngle and in
\* updateCharacterRotation, is greater than -pi and at most pi.
C14_TurnTakesShorterPath ==
  facing.turned => (-PI < facing.delta /\ facing.delta <= PI)

\* C23: mesh.rotation.y, the facing angle, is at least 0 and less than 2 pi
\* after every handleMovement and every setRotationFromCamera.
C23_FacingAngleIsWrapped ==
  0 <= facing.rotationY /\ facing.rotationY < 2 * PI

\* The angle between two headings, in 0..PI
AngularDistance(a, b) ==
  LET d == (b - a) % (2 * PI) IN IF d > PI THEN 2 * PI - d ELSE d

\* C24: a setRotationFromCamera call on a character that is not moving, with
\* no direction key held, turns a facing angle that is away from the camera
\* yaw closer to it.
C24_IdleFacingTurnsToCamera ==
  [][(/\ facing' # facing
      /\ facing'.handled = facing.handled
      /\ ~facing.isMoving
      /\ ~(keys.forward \/ keys.backward \/ keys.left \/ keys.right)
      /\ AngularDistance(facing.rotationY, facing'.cameraRotation) > 0)
       => AngularDistance(facing'.rotationY, facing'.cameraRotation)
            < AngularDistance(facing.rotationY, facing'.cameraRotation)]_vars

\* C25: targetCameraPitch and the smoothed cameraPitch are both within
\* [-pi/2.5, pi/4] whatever frames and mouse events have happened.
C25_PitchWithinClamp ==
  /\ minCameraPitch <= camera.targetCameraPitch
  /\ camera.targetCameraPitch <= maxCameraPitch
  /\ minCameraPitch <= camera.cameraPitch
  /\ camera.cameraPitch <= maxCameraPitch

\* A mouse move took the target pitch to the upper limit and the smoothed
\* pitch has followed it there
C25_Witness ==
  /\ mouse.moves > 0
  /\ camera.targetCameraPitch = maxCameraPitch
  /\ camera.cameraPitch = maxCameraPitch

-----------------------------------------------------------------------------
(* Claims about the frame of the game *)

\* C15: checkCollisions, the last physics step of HumanCharacter.update, puts
\* a character at or below floorY + collisionBuffer on the floor with no
\* vertical velocity and grounded, and marks any other character not
\* grounded; so between frames position.y >= floorY, and the character is
\* grounded exactly when position.y = floorY.
C15_FloorCollision ==
  /\ []((character.class = "HumanCharacter" /\ frame.pc = "animate") =>
          /\ character.positionY >= floorY
          /\ character.isOnGround <=> character.positionY = floorY
          /\ character.isOnGround => character.velocityY = 0)
  /\ [][(character.class = "HumanCharacter" /\ frame.pc = "checkCollisions") =>
          IF character.positionY <= floorY + collisionBuffer
            THEN /\ character'.positionY = floorY
                 /\ character'.velocityY = 0
                 /\ character'.isOnGround
            ELSE /\ ~character'.isOnGround
                 /\ character'.positionY = character.positionY
                 /\ character'.velocityY = character.velocityY]_vars

\* C15 witness: a HumanCharacter that has just landed from a jump, its
\* movement state not yet resolved again.
C15_Witness ==
  /\ character.class = "HumanCharacter"
  /\ frame.pc = "animate"
  /\ character.isOnGround
  /\ character.positionY = floorY
  /\ character.movementState \in JumpStates


\* Every occurrence of the call `later` in the frame so far comes after an
\* occurrence of the call `earlier`
Precedes(earlier, later) ==
  \A j \in DOMAIN frame.order :
    frame.order[j] = later =>
      \E i \in 1..(j - 1) : frame.order[i] = earlier

\* C16: within a frame handleMovement comes before setRotationFromCamera,
\* that before checkCollisions, and that before every updateAnimation.
C16_FrameOrder ==
  /\ Precedes("handleMovement", "setRotationFromCamera")
  /\ Precedes("setRotationFromCamera", "checkCollisions")
  /\ Precedes("checkCollisions", "updateAnimation")


\* The world axis of a single held direction key, <<x, z>>
DirectionAxis ==
  [forward |-> <<0, -1>>, backward |-> <<0, 1>>,
   left |-> <<-1, 0>>, right |-> <<1, 0>>]

\* v turned n quarter turns about the vertical axis, each taking -z to -x
RECURSIVE QuarterTurns(_, _)
QuarterTurns(v, n) ==
  IF n = 0 THEN v ELSE QuarterTurns(<<v[2], -v[1]>>, n - 1)

OnlyHeld(direction) ==
  \A d \in DOMAIN DirectionAxis : keys[d] <=> d = direction

\* C17: with one direction key held and a stored camera yaw of a whole number
\* of quarter turns, handleMovement leaves movementDirection at the key's
\* axis turned by that yaw: forward gives -z at yaw 0 and +z at yaw pi.
C17_DirectionFollowsCameraYaw ==
  [][facing'.handled # facing.handled =>
       \A d \in DOMAIN DirectionAxis :
         OnlyHeld(d) =>
           /\ facing'.movementDirection =
                QuarterTurns(DirectionAxis[d],
                             (facing.cameraRotation \div (PI \div 2)) % 4)
           /\ (d = "forward" /\ facing.cameraRotation = 0)
                => facing'.movementDirection = <<0, -1>>
           /\ (d = "forward" /\ facing.cameraRotation = PI)
                => facing'.movementDirection = <<0, 1>>]_vars

\* C17 witness: forward alone is held, the stored yaw is a quarter turn, and
\* handleMovement has left the direction along -x.
C17_Witness ==
  /\ OnlyHeld("forward")
  /\ facing.cameraRotation = PI \div 2
  /\ facing.isMoving
  /\ facing.handled = 1
  /\ facing.movementDirection = <<-1, 0>>

\* C26: the elapsed time HumanCharacter.update hands to handleMovement and
\* handleJump is between 0 and 0.3 s, whatever delta the clock gave.
C26_ElapsedTimeIsCapped ==
  0 <= frame.deltaTime /\ frame.deltaTime <= 3

\* Falling speeds up to the terminal velocity, in tenths
FallSpeeds == {terminalVelocity + 100, terminalVelocity + 50, terminalVelocity}

\* C27: HumanCharacter.handleJump sets velocity.y to jumpForce and clears
\* isOnGround exactly when jump is held and the character was on the ground;
\* isOnGround becomes true again in checkCollisions only, so a second jump
\* needs a frame that ended on the ground; and velocity.y is never below
\* terminalVelocity, from whatever falling speed handleJump starts.
C27_JumpOnlyFromGround ==
  /\ [][(At("HumanCharacter", "handleJump") /\ frame'.pc # frame.pc)
          => ((/\ character'.velocityY = character.jumpForce
               /\ ~character'.isOnGround)
                <=> (keys.jump /\ character.isOnGround))]_vars
  /\ [][(/\ character.class = "HumanCharacter"
         /\ ~character.isOnGround
         /\ character'.isOnGround) => frame.pc = "checkCollisions"]_vars
  /\ [](character.class = "HumanCharacter"
          => /\ character.velocityY >= terminalVelocity
             /\ \A v \in FallSpeeds :
                  HumanHandleJump([character EXCEPT !.velocityY = v,
                                                    !.isOnGround = FALSE],
                                  keys, frame.deltaTime).velocityY
                    >= terminalVelocity)

\* Jump is still held a frame after the jump: the character rises more
\* slowly than at the jump
C27_Witness ==
  /\ At("HumanCharacter", "checkCollisions")
  /\ keys.jump
  /\ character.isJumping
  /\ ~character.isOnGround
  /\ character.positionY > floorY
  /\ character.velocityY < character.jumpForce

\* The steps of a frame that follow checkCollisions, and those of the next
\* frame that precede its first reader of isOnGround, updateMovementState
AfterCollisionCheck ==
  {"updateAnimations", "handleCameraMovement", "render", "animate", "update"}

\* C28: in every frame checkCollisions comes after that frame's
\* handleMovement and handleJump and neither runs again after it; it sets
\* isOnGround from the position they left, and no step changes isOnGround
\* from then until the next frame's updateMovementState reads it.
C28_CollisionCheckIsLast ==
  /\ [](/\ Precedes("handleMovement", "checkCollisions")
        /\ Precedes("handleJump", "checkCollisions")
        /\ Precedes("handleMovement", "handleJump")
        /\ Len(SelectSeq(frame.order,
                         LAMBDA h : h \in {"handleMovement", "handleJump",
                                           "checkCollisions"})) <= 3)
  /\ [][(frame.pc = "checkCollisions" /\ frame'.pc # frame.pc)
          => (character'.isOnGround
                <=> IF character.class = "HumanCharacter"
                      THEN character.positionY <= floorY + collisionBuffer
                      ELSE character.positionY - character.height \div 2 <= 0)]_vars
  /\ [][frame.pc \in AfterCollisionCheck
          => character'.isOnGround = character.isOnGround]_vars

\* A frame begins in the air: the last frame's check, made after the jump
\* had raised the character, found it off the floor
C28_Witness ==
  /\ At("HumanCharacter", "updateMovementState")
  /\ ~character.isOnGround
  /\ character.positionY > floorY + collisionBuffer

\* C29: Character.updateAnimations, the animation step of a frame, leaves
\* position, velocity, isOnGround, currentSpeed and targetSpeed as
\* checkCollisions left them.
C29_AnimationLeavesBodyAlone ==
  [][frame.pc = "updateAnimations"
       => /\ character'.positionY = character.positionY
          /\ character'.velocityY = character.velocityY
          /\ character'.isOnGround = character.isOnGround
          /\ character'.currentSpeed = character.currentSpeed
          /\ character'.targetSpeed = character.targetSpeed]_vars

-----------------------------------------------------------------------------
(* Claims about the camera *)

\* The wheel delta moves the distance without meeting the zoom limits
ZoomIsUnclamped(distance, wheelDelta) ==
  /\ minZoomDistance < distance + (wheelDelta * distance) \div 50
  /\ distance + (wheelDelta * distance) \div 50 < maxZoomDistance

\* C18: a wheel delta changes targetCameraOffset.z by less at distance 10 than
\* the same delta does at distance 2, neither step meeting the zoom limits.
C18_FartherZoomSmallerStep ==
  [][(/\ frame.pc = "handleCameraMovement"
      /\ mouse.wheelDelta # 0
      /\ camera.targetCameraOffsetZ = 10 * DistanceScale
      /\ ZoomIsUnclamped(10 * DistanceScale, mouse.wheelDelta)
      /\ ZoomIsUnclamped(2 * DistanceScale, mouse.wheelDelta))
       => Abs(camera'.targetCameraOffsetZ - camera.targetCameraOffsetZ)
            < Abs(ZoomedDistance(2 * DistanceScale, mouse.wheelDelta)
                    - 2 * DistanceScale)]_vars


\* C19: a camera update made while the pointer lock is not held leaves
\* targetCameraRotation and targetCameraPitch as they were.
C19_NoTurnWithoutPointerLock ==
  [][(frame.pc = "handleCameraMovement" /\ ~mouse.isLocked) =>
       /\ camera'.targetCameraRotation = camera.targetCameraRotation
       /\ camera'.targetCameraPitch = camera.targetCameraPitch]_vars

MouseDeltas(m) == <<m.movementX, m.movementY, m.wheelDelta>>

MouseDeltasAreZero(m) == MouseDeltas(m) = <<0, 0, 0>>

\* C31: handleCameraMovement ends with the three mouse deltas at 0 and no
\* other step of a frame touches them, so that they are 0 when the frame is
\* rendered; only an event between two frames changes a delta, and a camera
\* update that finds them at 0 moves no camera target.
C31_DeltasResetEachFrame ==
  /\ [][(frame.pc = "handleCameraMovement" /\ frame'.pc # frame.pc)
          => MouseDeltasAreZero(mouse')]_vars
  /\ [](frame.pc = "render" => MouseDeltasAreZero(mouse))
  /\ [][MouseDeltas(mouse') # MouseDeltas(mouse)
          => \/ frame.pc = "handleCameraMovement"
             \/ frame.pc = "animate" /\ frame'.pc = "animate"]_vars
  /\ [][(frame.pc = "handleCameraMovement" /\ MouseDeltasAreZero(mouse))
          => /\ camera'.targetCameraRotation = camera.targetCameraRotation
             /\ camera'.targetCameraPitch = camera.targetCameraPitch
             /\ camera'.targetCameraOffsetY = camera.targetCameraOffsetY
             /\ camera'.targetCameraOffsetZ = camera.targetCameraOffsetZ]_vars

\* A frame has used a mouse move and a wheel turn and left the deltas at 0
C31_Witness ==
  /\ frame.pc = "render"
  /\ mouse.moves > 0
  /\ mouse.wheels > 0
  /\ MouseDeltasAreZero(mouse)
  /\ camera.targetCameraRotation # NewCamera.targetCameraRotation
  /\ camera.targetCameraOffsetZ # NewCamera.targetCameraOffsetZ

\* handleCameraMovement from the present state with the rotate button held,
\* or not, and the mouse still, so that both frames have the same targets
CameraFrame(held) ==
  HandleCameraMovement(camera, [mouse EXCEPT !.rightButtonDown = held,
                                             !.movementX = 0,
                                             !.movementY = 0])

\* From x the frame with the button held moves to `held` and the frame
\* without it to `free`: both towards the target and not beyond it, the
\* first farther than the second.  Differences under five units, where
\* rounding hides the factor, are left out.
MovesFasterWhenHeld(x, target, held, free) ==
  Abs(target - x) >= 5 =>
    /\ 0 < Abs(free - x)
    /\ Abs(free - x) < Abs(held - x)
    /\ Abs(held - x) <= Abs(target - x)
    /\ (target - x) * (free - x) > 0
    /\ (target - x) * (held - x) > 0

\* C30: in a frame the yaw, the pitch and the zoom distance each move
\* towards their target by part of the remaining difference, never beyond
\* it, and by a larger part when the rotate button is held than when not.
C30_RotateButtonSpeedsCamera ==
  frame.pc = "handleCameraMovement" =>
    /\ MovesFasterWhenHeld(camera.cameraRotation,
                           CameraFrame(TRUE).targetCameraRotation,
                           CameraFrame(TRUE).cameraRotation,
                           CameraFrame(FALSE).cameraRotation)
    /\ MovesFasterWhenHeld(camera.cameraPitch,
                           CameraFrame(TRUE).targetCameraPitch,
                           CameraFrame(TRUE).cameraPitch,
                           CameraFrame(FALSE).cameraPitch)
    /\ MovesFasterWhenHeld(camera.cameraOffsetZ,
                           CameraFrame(TRUE).targetCameraOffsetZ,
                           CameraFrame(TRUE).cameraOffsetZ,
                           CameraFrame(FALSE).cameraOffsetZ)

-----------------------------------------------------------------------------
(* Claims about the animation clips *)

\* The clip of each movement state that is not a jump
ClipTable ==
  [idle |-> "idle", walk |-> "walk", normal |-> "walk", run |-> "run"]

\* The jump clip for a jump that starts in the movement state
JumpClip(movementState) == IF movementState = "run" THEN "jumpRun" ELSE "jump"

\* C20: updateMovementState plays the clip ClipTable gives for the state it
\* resolves, and a jump that starts in handleJump takes the state jumpRun,
\* and plays that clip, when the frame resolved run, and jump otherwise.
C20_ClipFollowsState ==
  [][/\ (/\ character.class = "HumanCharacter"
         /\ frame.pc = "updateMovementState"
         /\ ~character.isJumping
         /\ character.mixer
         /\ character.animations[ClipTable[character'.movementState]] # "none")
          => character'.animations[ClipTable[character'.movementState]]
               = "running"
     /\ (/\ character.class = "HumanCharacter"
         /\ frame.pc = "handleJump"
         /\ keys.jump
         /\ character.isOnGround)
          => /\ character'.movementState = JumpClip(character.movementState)
             /\ (/\ character.mixer
                 /\ character.animations[JumpClip(character.movementState)]
                      # "none")
                  => character'.animations[JumpClip(character.movementState)]
                       = "running"]_vars


\* C21: a mixer update in which a jump clip (jump or jumpRun) reaches its
\* end leaves isJumping false, so that updateMovementState resolves the
\* state from the keys again.
C21_FinishedJumpClipClearsLatch ==
  [][(/\ character.class = "HumanCharacter"
      /\ frame.pc = "update"
      /\ \E n \in LoopOnceClips :
           /\ character.animations[n] = "running"
           /\ character'.animations[n] = "paused")
       => ~character'.isJumping]_vars


\* loadModel has returned
LoadModelReturned == character.loading = Len(AnimationNames) + 1

\* C22: a loadModel that got no model returns leaving no mixer, no clip and
\* isModelLoaded false, and the frames go on applying gravity and the jump;
\* a loadModel that got the model goes through every clip whichever clips
\* fail, a failure leaving the clips loaded so far as they are, and returns
\* with isModelLoaded true.
C22_FailedLoadsDoNotAbort ==
  /\ []((LoadModelReturned /\ ~character.mixer) =>
          /\ ~character.isModelLoaded
          /\ \A n \in AnimationSet : character.animations[n] = "none"
          /\ frame.pc = "animate" => ENABLED animate(5))
  /\ []((LoadModelReturned /\ character.mixer) => character.isModelLoaded)
  /\ [][(/\ LoadModelReturned
         /\ ~character.mixer
         /\ frame.pc = "handleJump")
          => /\ character'.positionY
                  = character.positionY + character'.velocityY * frame.deltaTime
             /\ (keys.jump /\ character.isOnGround)
                  => character'.velocityY = character.jumpForce]_vars
  /\ [][(/\ character.loading \in DOMAIN AnimationNames
         /\ character'.loading # character.loading)
          => /\ character'.loading = character.loading + 1
             /\ \A n \in AnimationSet :
                  character.animations[n] # "none"
                    => character'.animations[n] # "none"]_vars

\* C22 witness: idle and run failed to load, the other three clips are
\* there and loadModel has returned with isModelLoaded true.
C22_Witness ==
  /\ LoadModelReturned
  /\ character.isModelLoaded
  /\ character.animations["idle"] = "none"
  /\ character.animations["run"] = "none"
  /\ \A n \in {"walk", "jump", "jumpRun"} : character.animations[n] # "none"

\* C37: when the decode of a loadModelById call fails, the call rejects with
\* the failure, and the cache and the registry are as they were; a
\* loadModelById of the same id made after it never returns the failure nor
\* anything of the failed decode, and with the id enabled and no entry in
\* the cache it starts a decode of its own.
C37_FailedDecodeLeavesNoEntry ==
  /\ [][\A i \in DOMAIN calls :
          (calls[i].state = "awaiting" /\ calls'[i].state = "rejected") =>
            /\ calls'[i].ret = DecodeFailed
            /\ loadedModels' = loadedModels
            /\ modelRegistry' = modelRegistry]_vars
  /\ [][\A i \in DOMAIN calls :
          (/\ calls[i].state = "rejected"
           /\ calls[i].path = "decode"
           /\ IsLoadCall(calls[i].id)) =>
            LET id == calls[i].id
                later == calls'[Len(calls')]
            IN /\ later.ret # DecodeFailed
               /\ later.decode # calls[i].decode
               /\ later.path = "cached"
                    => later.ret.decode # calls[i].decode
               /\ (modelRegistry[id].enabled /\ loadedModels[id] = Absent)
                    => /\ later.path = "decode"
                       /\ later.decode = decodes + 1
                       /\ decodes' = decodes + 1]_vars

\* C37 witness: the decode of the first call of x failed, nothing is cached
\* for x, and a second call of x is awaiting a decode of its own.
C37_Witness ==
  /\ Len(calls) = 2
  /\ calls[1].id = "x"
  /\ calls[1].state = "rejected"
  /\ calls[1].ret = DecodeFailed
  /\ calls[2].id = "x"
  /\ calls[2].pendingAtCall = {}
  /\ calls[2].path = "decode"
  /\ calls[2].decode = 2
  /\ loadedModels["x"] = Absent

\* C38: after handleMovement of HumanCharacter the squared length of
\* (velocity.x, velocity.z) is the square of currentSpeed, and currentSpeed
\* is not negative, whenever a direction key is held, whatever the
\* combination; velocity.x and velocity.z are 0 when none is held; and
\* normalize() was called only on a direction that is not zero.
C38_HorizontalSpeedIsCurrentSpeed ==
  [][facing'.handled # facing.handled =>
       /\ DirectionHeld(keys) =>
            /\ LengthSq(facing'.velocity)
                 = facing'.divisor * character'.currentSpeed
                                   * character'.currentSpeed
            /\ character'.currentSpeed >= 0
       /\ ~DirectionHeld(keys) =>
            /\ facing'.velocity = <<0, 0>>
            /\ ~facing'.normalized
       /\ facing'.normalized => LengthSq(InputDirection(keys)) > 0]_vars

\* C38 witness: forward, backward, left and run are held, the direction was
\* normalised from length sqrt(2), and the character moves at the run speed
\* along the diagonal of backward and left as the camera at yaw pi sees it.
C38_Witness ==
  /\ frame.pc = "handleJump"
  /\ keys.forward /\ keys.backward /\ keys.left /\ ~keys.right /\ keys.run
  /\ facing.cameraRotation = PI
  /\ facing.normalized
  /\ facing.divisor = 2
  /\ character.currentSpeed = character.runSpeed
  /\ facing.velocity = <<character.runSpeed, -character.runSpeed>>

\* C39 (as claimed): after any sequence of keydown and keyup events an
\* action is held exactly when a key whose code keyMap maps to it is down.
C39_HeldIffSomeKeyIsDown ==
  \A action \in DOMAIN keys :
    keys[action] <=>
      \E code \in keysDown \cap DOMAIN keyMap : keyMap[code] = action

\* A jump has been triggered and is not over
JumpTriggered ==
  /\ character.isJumping
  /\ character.movementState \in {"jump", "jumpRun"}

\* updateMovementState has just set the movement state from the keys, for a
\* character that stands on the ground and is not jumping
GroundedAndReevaluated ==
  /\ frame.pc = "handleMovement"
  /\ character.isOnGround
  /\ ~character.isJumping
  /\ character.movementState
       = ResolveMovementState(character, keys).movementState

\* C40: with the frames going on for ever, a triggered jump is followed by a
\* frame in which the character is on the ground, isJumping is false and
\* updateMovementState sets the movement state from the keys, whichever
\* clips were loaded and whether or not a clip ever finishes.
C40_JumpAlwaysEnds == JumpTriggered ~> GroundedAndReevaluated

\* C40 witness: a character whose model failed to load, with no mixer and
\* no clip, has jumped and checkCollisions has just put it on the ground
\* with isJumping false; the movement state is still that of the jump.
C40_Witness ==
  /\ frame.pc = "handleCameraMovement"
  /\ LoadModelReturned
  /\ ~character.mixer
  /\ \A n \in AnimationSet : character.animations[n] = "none"
  /\ character.movementState = "jump"
  /\ character.isOnGround
  /\ ~character.isJumping

\* Call i took the decode path with an exclusion list that setExcludedMeshes
\* has replaced since: the registry of its id holds a list now, and not the
\* one the call handed to loadModel
ExcludedWhileInFlight(i) ==
  /\ calls[i].path = "decode"
  /\ modelRegistry[calls[i].id] # Absent
  /\ modelRegistry[calls[i].id].excludeMeshes # Undefined
  /\ modelRegistry[calls[i].id].excludeMeshes # calls[i].excludeMeshes

\* C36 (as claimed): when the decode of a loadModelById(id) call completes
\* after setExcludedMeshes(id, names) ran during it, the cache does not hold
\* for id a model processed with the list the call started with, and a
\* loadModelById(id) made afterwards does not return such a model.
C36_NoStaleExclusionsAfterInFlightDecode ==
  [][\A i \in DOMAIN calls :
       (calls[i].state = "awaiting" /\ ExcludedWhileInFlight(i)) =>
         /\ calls'[i].state = "returned"
              => loadedModels'[calls[i].id].excludeMeshes
                   # calls[i].excludeMeshes
         /\ \A j \in DOMAIN calls' \ DOMAIN calls :
              (calls'[j].id = calls[i].id /\ calls'[j].path = "cached")
                => calls'[j].ret.excludeMeshes # calls[i].excludeMeshes]_vars

\* C35 (as claimed): no step of the character's setup hands the url of an
\* animation asset whose descriptor has enabled = false to fbxLoader.load,
\* and no such step gives the clip of that asset an action.
C35_DisabledAnimationIsNotLoaded ==
  [][\A n \in AnimationSet :
       LET id == animationsToLoad[n]
       IN (modelRegistry[id] # Absent /\ ~modelRegistry[id].enabled)
            => /\ id \in fbxLoads' => id \in fbxLoads
               /\ character'.animations[n] = character.animations[n]]_vars

\* A step of the frame that calls updateAnimation
CallsUpdateAnimation ==
  \/ At("HumanCharacter", "updateMovementState") /\ ~character.isJumping
  \/ At("HumanCharacter", "handleJump") /\ keys.jump /\ character.isOnGround

\* C32: when updateAnimation finds the clip of the resolved movement state
\* running, it leaves every action, every fade and every clip time alone;
\* and a call that does restart a clip found its target not running, leaves
\* it running from the start of the clip and fades the other running clips
\* out.
C32_RunningClipIsNotRestarted ==
  [][CallsUpdateAnimation =>
       LET target == targetAnimation(character')
           restarted ==
             \/ character'.animations # character.animations
             \/ character'.fadeOut # character.fadeOut
             \/ character'.played # character.played
       IN /\ character.animations[target] = "running" => ~restarted
          /\ restarted =>
               /\ character.animations[target] # "running"
               /\ character'.animations[target] = "running"
               /\ ~character'.played[target]
               /\ character'.fadeOut[target] = 0
               /\ \A n \in AnimationSet \ {target} :
                    character.animations[n] = "running"
                      => character'.fadeOut[n] = fadeDuration]_vars

\* updateMovementState has found the walk clip running, the idle clip that
\* it replaced having faded out, and has left it where the mixer took it
C32_Witness ==
  /\ At("HumanCharacter", "handleMovement")
  /\ ~character.isJumping
  /\ targetAnimation(character) = "walk"
  /\ character.animations["walk"] = "running"
  /\ character.played["walk"]
  /\ character.animations["idle"] = "stopped"

====
